---- MODULE Spec2Model ----
(***************************************************************************)
(* A model of braid-py's Mermaid parser and GRD graph analysis             *)
(* (src/braid/parser.py), of the reasoning module that runs a parsed       *)
(* diagram step by step (src/braid/module.py) and of the generator that    *)
(* asks a model for a diagram and retries (src/braid/generator.py).        *)
(*                                                                         *)
(* Strings are sequences of one-character strings, so that the regular     *)
(* expressions of the parser are matched character by character.  Node ids *)
(* and labels are such sequences too.                                      *)
(***************************************************************************)
EXTENDS Integers, Sequences, FiniteSets, TLC

VARIABLES
    pc,           \* control point of the operation under way
    nodes,        \* GRDStructure.nodes : sequence of GRDNode records
    edges,        \* GRDStructure.edges : sequence of GRDEdge records
    start_nodes,  \* GRDStructure.start_nodes
    end_nodes,    \* GRDStructure.end_nodes
    in_degree,    \* get_execution_order: dict id -> count, in insertion order
    graph,        \* get_execution_order: dict id -> list of successor ids
    queue,        \* get_execution_order: work list
    result,       \* get_execution_order: order built so far
    mermaid_code, \* parse: the text passed in
    code,         \* parse: the text after _clean_code
    error,        \* parse: the message of the ValueError raised, or None
    stack,        \* the callers that await the return of the operation under way
    ret,          \* the value the last operation of the caller's layer returned
    self,         \* the attributes __init__ set on the object the call runs on
    fwd,          \* forward: its arguments and locals
    calls,        \* the node ids self.execute_step was invoked for, in order
    gen,          \* GRDGenerator.generate: its locals
    heap,         \* the list objects that hold few-shot examples, by reference
    generators    \* the GRDGenerator instances constructed so far

\* the fields of a GRDStructure
grdVars == <<nodes, edges, start_nodes, end_nodes>>
\* the locals of get_execution_order
geoVars == <<in_degree, graph, queue, result>>
\* the argument, local and exception of parse
parseVars == <<mermaid_code, code, error>>

\* what only validate, _clean_code on its own and forward touch
callVars == <<stack, ret, self, fwd, calls>>
\* the state of the generation layer
genVars == <<gen, heap, generators>>

vars == <<pc, grdVars, geoVars, parseVars, callVars, genVars>>

----------------------------------------------------------------------------
(* Bounds of the model.                                                    *)

\* largest number of nodes of a directly constructed graph
MaxNodes == 3
\* largest number of edges of a directly constructed graph
MaxEdges == 3
\* largest number of statements after the header of a parsed text
MaxStmts == 2

----------------------------------------------------------------------------
(* Generic helpers.                                                        *)

Range(s) == {s[i] : i \in 1..Len(s)}

NoDup(s) == \A i, j \in 1..Len(s) : i # j => s[i] # s[j]

\* position of the first occurrence of x in s, 0 when absent
IndexOf(s, x) ==
    IF x \in Range(s) THEN CHOOSE i \in 1..Len(s) : s[i] = x /\ \A j \in 1..(i-1) : s[j] # x
    ELSE 0

\* all sequences over S of length at most n
SeqsUpTo(S, n) == UNION {[1..k -> S] : k \in 0..n}

\* Python's None
None == <<"<None>">>

----------------------------------------------------------------------------
(* Data model: NodeType, GRDNode, GRDEdge.                                 *)

NodeType == {"rectangle", "rounded", "stadium", "subroutine", "cylindrical", "circle",
             "diamond", "hexagon", "parallelogram", "trapezoid", "unknown"}

GRDNode(id, label, node_type) == [id |-> id, label |-> label, node_type |-> node_type]

GRDEdge(from_node, to_node, label, style) ==
    [from_node |-> from_node, to_node |-> to_node, label |-> label, style |-> style]

NodeIds(ns) == {ns[i].id : i \in 1..Len(ns)}

----------------------------------------------------------------------------
(* A Python dict that is iterated: a sequence of [k, v] entries in         *)
(* insertion order.                                                        *)

DictKeys(d) == {d[i].k : i \in 1..Len(d)}

DictGet(d, key, default) ==
    IF key \in DictKeys(d)
    THEN d[CHOOSE i \in 1..Len(d) : d[i].k = key].v
    ELSE default

\* d[key] = val : an existing key keeps its position, a new key goes last
DictSet(d, key, val) ==
    IF key \in DictKeys(d)
    THEN [i \in 1..Len(d) |-> IF d[i].k = key THEN [k |-> key, v |-> val] ELSE d[i]]
    ELSE Append(d, [k |-> key, v |-> val])

----------------------------------------------------------------------------
(* GRDStructure.get_execution_order                                        *)

\* {node.id: 0 for node in self.nodes}; the dict is updated before the next
\* node is looked at (d1 ranges over the one updated value)
RECURSIVE ZeroDegrees(_, _)
ZeroDegrees(d, ns) ==
    IF ns = <<>> THEN d
    ELSE CHOOSE r \in {ZeroDegrees(d1, Tail(ns)) : d1 \in {DictSet(d, Head(ns).id, 0)}} : TRUE

\* BuildAdjacency with the in-degree counted on the edge's source
RECURSIVE BuildAdjacencySwapped(_, _, _)
BuildAdjacencySwapped(g, d, es) ==
    IF es = <<>> THEN [graph |-> g, in_degree |-> d, raised |-> FALSE]
    ELSE LET e == Head(es) IN
         IF e.from_node \notin DOMAIN g
         THEN [graph |-> g, in_degree |-> d, raised |-> TRUE]
         ELSE BuildAdjacencySwapped([g EXCEPT ![e.from_node] = Append(@, e.to_node)],
                                    DictSet(d, e.from_node, DictGet(d, e.from_node, 0) + 1),
                                    Tail(es))

\* the loop over self.edges that fills graph and in_degree; graph[edge.from_node]
\* raises KeyError when from_node is no node id.  Both dicts are updated
\* before the next edge is looked at (g1 and d1 range over the one updated
\* value each)
RECURSIVE BuildAdjacency(_, _, _)
BuildAdjacency(g, d, es) ==
    IF es = <<>> THEN [graph |-> g, in_degree |-> d, raised |-> FALSE]
    ELSE LET e == Head(es) IN
         IF e.from_node \notin DOMAIN g
         THEN [graph |-> g, in_degree |-> d, raised |-> TRUE]
         ELSE CHOOSE b \in {BuildAdjacency(g1, d1, Tail(es)) :
                            g1 \in {[g EXCEPT ![e.from_node] = Append(@, e.to_node)]},
                            d1 \in {DictSet(d, e.to_node, DictGet(d, e.to_node, 0) + 1)}} : TRUE

\* SeedQueue without the degree test
SeedQueueAll(d) == [i \in 1..Len(d) |-> d[i].k]

\* [node_id for node_id, degree in in_degree.items() if degree == 0]
RECURSIVE SeedQueue(_)
SeedQueue(d) ==
    IF d = <<>> THEN <<>>
    ELSE (IF Head(d).v = 0 THEN <<Head(d).k>> ELSE <<>>) \o SeedQueue(Tail(d))

\* queue.pop() : the last element instead of the first
PopBack(q) == [node_id |-> q[Len(q)], queue |-> SubSeq(q, 1, Len(q) - 1)]

\* queue.pop(0)
PopFront(q) == [node_id |-> Head(q), queue |-> Tail(q)]

\* Relax without the test for zero: every neighbour is enqueued
RECURSIVE RelaxNoCheck(_, _, _)
RelaxNoCheck(d, q, nbrs) ==
    IF nbrs = <<>> THEN [in_degree |-> d, queue |-> q]
    ELSE LET n == Head(nbrs) IN
         RelaxNoCheck(DictSet(d, n, DictGet(d, n, 0) - 1), Append(q, n), Tail(nbrs))

\* the loop over graph[node_id]: decrement, enqueue at zero
RECURSIVE Relax(_, _, _)
Relax(d, q, nbrs) ==
    IF nbrs = <<>> THEN [in_degree |-> d, queue |-> q]
    ELSE LET n  == Head(nbrs)
             d1 == DictSet(d, n, DictGet(d, n, 0) - 1)
         IN  Relax(d1, IF DictGet(d1, n, 0) = 0 THEN Append(q, n) ELSE q, Tail(nbrs))

\* lines 77-82
GEO_Build ==
    /\ pc = "geo_build"
    /\ LET b == BuildAdjacency([id \in NodeIds(nodes) |-> <<>>],
                               ZeroDegrees(<<>>, nodes), edges)
       IN  /\ graph' = b.graph
           /\ in_degree' = b.in_degree
           /\ pc' = IF b.raised THEN "geo_raised" ELSE "geo_seed"
    /\ UNCHANGED <<genVars, callVars, grdVars, parseVars, queue, result>>

\* lines 85-86
GEO_Seed ==
    /\ pc = "geo_seed"
    /\ queue' = SeedQueue(in_degree)
    /\ result' = <<>>
    /\ pc' = "geo_loop"
    /\ UNCHANGED <<genVars, callVars, grdVars, parseVars, in_degree, graph>>

\* one iteration of the while loop, lines 88-95
GEO_Step ==
    /\ pc = "geo_loop"
    /\ queue # <<>>
    /\ LET p == PopFront(queue) IN
       /\ result' = Append(result, p.node_id)
       /\ IF p.node_id \notin DOMAIN graph
          THEN /\ queue' = p.queue
               /\ in_degree' = in_degree
               /\ pc' = "geo_raised"
          ELSE LET r == Relax(in_degree, p.queue, graph[p.node_id]) IN
               /\ queue' = r.queue
               /\ in_degree' = r.in_degree
               /\ pc' = "geo_loop"
    /\ UNCHANGED <<genVars, callVars, grdVars, parseVars, graph>>

\* line 97
GEO_Return ==
    /\ pc = "geo_loop"
    /\ queue = <<>>
    /\ pc' = "geo_done"
    /\ UNCHANGED <<genVars, callVars, grdVars, parseVars, geoVars>>

----------------------------------------------------------------------------
(* GRDMetrics.execution_traceability, read off its description: the share  *)
(* of the nodes that get_execution_order returns.  A score is kept as the  *)
(* pair <<numerator, denominator>>.                                        *)

\* the score 0.0
ZeroScore == <<0, 1>>

\* execution_traceability dividing by the node count of any graph: the
\* division raises on a graph without nodes
ExecutionTraceabilityUnguarded(order, ns) ==
    IF Len(ns) = 0 THEN None ELSE <<Len(order), Len(ns)>>

\* len(order) / len(nodes), 0.0 on a graph without nodes
ExecutionTraceability(order, ns) ==
    IF Len(ns) = 0 THEN ZeroScore ELSE <<Len(order), Len(ns)>>

\* execution_traceability(graph) called on a graph built directly: the order
\* has come back and the score is returned
Execution_Traceability ==
    /\ pc = "geo_done"
    /\ stack = <<>>
    /\ ret' = ExecutionTraceability(result, nodes)
    /\ pc' = "traceability_done"
    /\ UNCHANGED <<genVars, grdVars, geoVars, parseVars, stack, self, fwd, calls>>

----------------------------------------------------------------------------
(* Directly constructed graphs: GRDStructure(nodes=..., edges=...) with    *)
(* unique node ids.  Edge endpoints range over IdUniverse, so an edge may  *)
(* name an id that is no node when the graph has fewer than MaxNodes nodes.*)

IdPool == << <<"A">>, <<"B">>, <<"C">>, <<"D">>, <<"E">>, <<"F">> >>

IdUniverse == {IdPool[i] : i \in 1..MaxNodes}

GraphNodes(n) == [i \in 1..n |-> GRDNode(IdPool[i], IdPool[i], "rectangle")]

GraphEdges ==
    SeqsUpTo({GRDEdge(f, t, None, <<"-", "-", ">">>) : f \in IdUniverse, t \in IdUniverse},
             MaxEdges)

Init ==
    /\ pc = "geo_build"
    /\ nodes \in {GraphNodes(n) : n \in 0..MaxNodes}
    /\ edges \in GraphEdges
    /\ start_nodes = <<>>
    /\ end_nodes = <<>>
    /\ in_degree = <<>>
    /\ graph = <<>>
    /\ queue = <<>>
    /\ result = <<>>
    /\ mermaid_code = <<>>
    /\ code = <<>>
    /\ error = None
    /\ stack = <<>>
    /\ ret = None
    /\ self = None
    /\ fwd = None
    /\ calls = <<>>
    /\ gen = None
    /\ heap = <<>>
    /\ generators = <<>>

Next ==
    \/ GEO_Build
    \/ GEO_Seed
    \/ GEO_Step
    \/ GEO_Return
    \/ Execution_Traceability

Spec == Init /\ [][Next]_vars

\* A call runs in one thread and the interpreter goes on executing it as long
\* as a statement is left: a step that stays possible is taken.
SpecFair == Spec /\ WF_vars(Next)

----------------------------------------------------------------------------
(* Python's str methods used by the parser, on sequences of characters.    *)

\* the characters str.strip() removes and \s matches
Whitespace == {" ", "\t", "\n", "\r", "\f"}

LowerCase == <<"a","b","c","d","e","f","g","h","i","j","k","l","m",
               "n","o","p","q","r","s","t","u","v","w","x","y","z">>
UpperCase == <<"A","B","C","D","E","F","G","H","I","J","K","L","M",
               "N","O","P","Q","R","S","T","U","V","W","X","Y","Z">>
Digits == {"0","1","2","3","4","5","6","7","8","9"}

\* the characters \w matches
WordChars == Range(LowerCase) \cup Range(UpperCase) \cup Digits \cup {"_"}

\* s[a:b] with 1-based a and exclusive b
Slice(s, a, b) == SubSeq(s, a, b - 1)

RECURSIVE LStrip(_)
LStrip(s) == IF s # <<>> /\ Head(s) \in Whitespace THEN LStrip(Tail(s)) ELSE s

RECURSIVE RStrip(_)
RStrip(s) ==
    IF s # <<>> /\ s[Len(s)] \in Whitespace THEN RStrip(SubSeq(s, 1, Len(s) - 1)) ELSE s

\* str.strip()
Strip(s) == RStrip(LStrip(s))

\* str.startswith(prefix)
StartsWith(s, prefix) == Len(s) >= Len(prefix) /\ SubSeq(s, 1, Len(prefix)) = prefix

\* str.split(sep) for a one-character separator: always at least one piece
RECURSIVE SplitFrom(_, _, _)
SplitFrom(s, sep, cur) ==
    IF s = <<>> THEN <<cur>>
    ELSE IF Head(s) = sep THEN <<cur>> \o SplitFrom(Tail(s), sep, <<>>)
         ELSE SplitFrom(Tail(s), sep, Append(cur, Head(s)))

Split(s, sep) == SplitFrom(s, sep, <<>>)

\* sep.join(pieces)
RECURSIVE Join(_, _)
Join(pieces, sep) ==
    IF pieces = <<>> THEN <<>>
    ELSE IF Len(pieces) = 1 THEN pieces[1]
         ELSE pieces[1] \o <<sep>> \o Join(Tail(pieces), sep)

----------------------------------------------------------------------------
(* Regular expressions as Python's re module matches them: a backtracking  *)
(* matcher that takes the first match in the engine's priority order       *)
(* (greedy: longest first; lazy: shortest first; alternatives left to      *)
(* right), started at the leftmost position that matches.                  *)
(*                                                                         *)
(* A regular expression is a sequence of elements:                         *)
(*   "set"   one character of a class                                      *)
(*   "rep"   a class repeated at least min times, greedy or lazy           *)
(*   "alt"   alternatives, each a regular expression                       *)
(*   "open"/"close"  the parentheses of capturing group g                  *)
(*   "bol"   ^ under re.MULTILINE                                          *)

In(S) == [neg |-> FALSE, s |-> S]
Not(S) == [neg |-> TRUE, s |-> S]
InClass(c, cls) == (c \in cls.s) # cls.neg

\* \w  \s  .
WordClass == In(WordChars)
SpaceClass == In(Whitespace)
Dot == Not({"\n"})

Ch(cls) == [t |-> "set", c |-> cls]
Lit(c) == Ch(In({c}))
LitSeq(s) == [i \in 1..Len(s) |-> Lit(s[i])]
Rep(cls, min, greedy) == [t |-> "rep", c |-> cls, min |-> min, greedy |-> greedy]
Alt(alts) == [t |-> "alt", alts |-> alts]
Group(g, re) == <<[t |-> "open", g |-> g]>> \o re \o <<[t |-> "close", g |-> g]>>
Bol == [t |-> "bol"]

\* a literal matched under re.IGNORECASE
LitNoCase(c) ==
    Ch(In({c} \cup {UpperCase[i] : i \in {j \in 1..26 : LowerCase[j] = c}}
              \cup {LowerCase[i] : i \in {j \in 1..26 : UpperCase[j] = c}}))
LitSeqNoCase(s) == [i \in 1..Len(s) |-> LitNoCase(s[i])]

\* no group has taken part: group g spans [caps[g][1], caps[g][2])
NoCaps == [g \in 1..6 |-> <<0, 0>>]
NoMatch == [ok |-> FALSE, start |-> 0, end |-> 0, caps |-> NoCaps]

\* number of consecutive characters of the class from pos on
RECURSIVE RunLen(_, _, _)
RunLen(text, pos, cls) ==
    IF pos <= Len(text) /\ InClass(text[pos], cls) THEN 1 + RunLen(text, pos + 1, cls) ELSE 0

RECURSIVE MatchAt(_, _, _, _)
RECURSIVE TryCounts(_, _, _, _, _, _, _)
RECURSIVE TryAlts(_, _, _, _, _, _)

\* match re at pos; the result's start is filled in by Search
MatchAt(text, re, pos, caps) ==
    IF re = <<>> THEN [ok |-> TRUE, start |-> pos, end |-> pos, caps |-> caps]
    ELSE LET h == Head(re)
             rest == Tail(re)
         IN  CASE h.t = "set" ->
                    IF pos <= Len(text) /\ InClass(text[pos], h.c)
                    THEN MatchAt(text, rest, pos + 1, caps)
                    ELSE NoMatch
               [] h.t = "rep" ->
                    LET n == RunLen(text, pos, h.c) IN
                    IF h.greedy THEN TryCounts(text, rest, pos, caps, n, h.min, -1)
                    ELSE TryCounts(text, rest, pos, caps, h.min, n, 1)
               [] h.t = "alt" -> TryAlts(text, h.alts, 1, rest, pos, caps)
               [] h.t = "open" ->
                    MatchAt(text, rest, pos, [caps EXCEPT ![h.g] = <<pos, pos>>])
               [] h.t = "close" ->
                    MatchAt(text, rest, pos, [caps EXCEPT ![h.g] = <<@[1], pos>>])
               [] h.t = "bol" ->
                    IF pos = 1 \/ (pos - 1 <= Len(text) /\ text[pos - 1] = "\n")
                    THEN MatchAt(text, rest, pos, caps)
                    ELSE NoMatch

\* a repetition: try the counts from cur to last in steps of step (-1 or 1)
TryCounts(text, rest, pos, caps, cur, last, step) ==
    IF (step = -1 /\ cur < last) \/ (step = 1 /\ cur > last) THEN NoMatch
    ELSE LET r == MatchAt(text, rest, pos + cur, caps) IN
         IF r.ok THEN r ELSE TryCounts(text, rest, pos, caps, cur + step, last, step)

\* alternatives i.. of alts, each followed by rest
TryAlts(text, alts, i, rest, pos, caps) ==
    IF i > Len(alts) THEN NoMatch
    ELSE LET r == MatchAt(text, alts[i] \o rest, pos, caps) IN
         IF r.ok THEN r ELSE TryAlts(text, alts, i + 1, rest, pos, caps)

\* re.search from position from on: the leftmost match
RECURSIVE Search(_, _, _)
Search(text, re, from) ==
    IF from > Len(text) + 1 THEN NoMatch
    ELSE LET r == MatchAt(text, re, from, NoCaps) IN
         IF r.ok THEN [r EXCEPT !.start = from] ELSE Search(text, re, from + 1)

\* re.finditer: the non-overlapping matches from left to right
RECURSIVE FindIterFrom(_, _, _)
FindIterFrom(text, re, from) ==
    LET m == Search(text, re, from) IN
    IF ~m.ok THEN <<>>
    ELSE <<m>> \o FindIterFrom(text, re, IF m.end = m.start THEN m.end + 1 ELSE m.end)

FindIter(text, re) == FindIterFrom(text, re, 1)

\* match.group(g); None when the group took no part
GroupOf(text, m, g) ==
    IF m.caps[g] = <<0, 0>> THEN None ELSE Slice(text, m.caps[g][1], m.caps[g][2])

\* re.sub(re, repl, text) for a replacement without back-references
RECURSIVE SubFrom(_, _, _, _)
SubFrom(text, ms, repl, from) ==
    IF ms = <<>> THEN Slice(text, from, Len(text) + 1)
    ELSE Slice(text, from, Head(ms).start) \o repl \o SubFrom(text, Tail(ms), repl, Head(ms).end)

Sub(re, repl, text) == SubFrom(text, FindIter(text, re), repl, 1)

----------------------------------------------------------------------------
(* MermaidParser: the patterns.                                            *)

\* (\w+)
WordGroup(g) == Group(g, <<Rep(WordClass, 1, TRUE)>>)

\* (.*?)
LazyGroup(g) == Group(g, <<Rep(Dot, 0, FALSE)>>)

\* \s*
Spaces == Rep(SpaceClass, 0, TRUE)

\* (\w+) open (.*?) close
ShapePattern(open, close) == WordGroup(1) \o LitSeq(open) \o LazyGroup(2) \o LitSeq(close)

NODE_PATTERNS == <<
    [re |-> ShapePattern(<<"[", "[">>, <<"]", "]">>), node_type |-> "subroutine"],
    [re |-> ShapePattern(<<"[", "(">>, <<")", "]">>), node_type |-> "stadium"],
    [re |-> ShapePattern(<<"(", "(">>, <<")", ")">>), node_type |-> "circle"],
    [re |-> ShapePattern(<<"{">>, <<"}">>), node_type |-> "diamond"],
    [re |-> ShapePattern(<<"{", "{">>, <<"}", "}">>), node_type |-> "hexagon"],
    [re |-> ShapePattern(<<"(">>, <<")">>), node_type |-> "rounded"],
    [re |-> ShapePattern(<<"[">>, <<"]">>), node_type |-> "rectangle"],
    \* (\w+)\[/?(.*?)[/\\]\]
    [re |-> WordGroup(1) \o <<Lit("["), Alt(<< <<Lit("/")>>, <<>> >>)>> \o LazyGroup(2)
              \o <<Ch(In({"/", "\\"})), Lit("]")>>,
     node_type |-> "parallelogram"] >>

\* (--[>]|==[>]) as group g
ArrowGroup(g) == Group(g, <<Alt(<<LitSeq(<<"-", "-", ">">>), LitSeq(<<"=", "=", ">">>)>>)>>)

\* --[->]\s*\|\s*(.*?)\s*\|  with the label as group g
LabelledArrow(g) ==
    <<Lit("-"), Lit("-"), Ch(In({"-", ">"})), Spaces, Lit("|"), Spaces>>
        \o LazyGroup(g) \o <<Spaces, Lit("|")>>

\* (\w+)\s*(--[>]|==[>])\s*(\w+)|(\w+)\s*--[->]\s*\|\s*(.*?)\s*\|\s*(\w+)
EDGE_PATTERN ==
    <<Alt(<< WordGroup(1) \o <<Spaces>> \o ArrowGroup(2) \o <<Spaces>> \o WordGroup(3),
             WordGroup(4) \o <<Spaces>> \o LabelledArrow(5) \o <<Spaces>> \o WordGroup(6) >>)>>

\* (?:\[[^\]]*\]|\([^\)]*\)|\{[^\}]*\})?
OptionalBracket ==
    Alt(<< <<Lit("["), Rep(Not({"]"}), 0, TRUE), Lit("]")>>,
           <<Lit("("), Rep(Not({")"}), 0, TRUE), Lit(")")>>,
           <<Lit("{"), Rep(Not({"}"}), 0, TRUE), Lit("}")>>,
           <<>> >>)

\* labeled_pattern of _parse_edges
LabeledPattern ==
    WordGroup(1) \o <<OptionalBracket, Spaces>> \o LabelledArrow(2) \o <<Spaces>>
        \o WordGroup(3) \o <<OptionalBracket>>

\* simple_pattern of _parse_edges
SimplePattern ==
    WordGroup(1) \o <<OptionalBracket, Spaces>> \o ArrowGroup(2) \o <<Spaces>>
        \o WordGroup(3) \o <<OptionalBracket>>

\* %%.*
CommentPattern == <<Lit("%"), Lit("%"), Rep(Dot, 0, TRUE)>>

\* [ \t]+
BlanksPattern == <<Rep(In({" ", "\t"}), 1, TRUE)>>

\* \n\s*\n
EmptyLinesPattern == <<Lit("\n"), Spaces, Lit("\n")>>

\* ^\s*(graph|flowchart) under MULTILINE | IGNORECASE
FlowchartPattern ==
    <<Bol, Spaces>>
        \o Group(1, <<Alt(<<LitSeqNoCase(<<"g", "r", "a", "p", "h">>),
                           LitSeqNoCase(<<"f", "l", "o", "w", "c", "h", "a", "r", "t">>)>>)>>)

\* the backquote, which a TLA+ string cannot hold
Backquote == "backquote"

\* the fence of a markdown code block
Fence == <<Backquote, Backquote, Backquote>>

----------------------------------------------------------------------------
(* MermaidParser: the passes.                                              *)

\* _clean_code
CleanCode(c) ==
    LET unfenced ==
            IF StartsWith(Strip(c), Fence)
            THEN LET lines  == Split(c, "\n")
                     lines1 == IF StartsWith(Strip(lines[1]), Fence) THEN Tail(lines) ELSE lines
                     lines2 == IF lines1 # <<>> /\ Strip(lines1[Len(lines1)]) = Fence
                               THEN SubSeq(lines1, 1, Len(lines1) - 1)
                               ELSE lines1
                 IN  Join(lines2, "\n")
            ELSE c
        uncommented == Sub(CommentPattern, <<>>, unfenced)
        lines == Split(uncommented, "\n")
        cleaned_lines == [i \in 1..Len(lines) |-> Strip(Sub(BlanksPattern, <<" ">>, lines[i]))]
    IN  Strip(Sub(EmptyLinesPattern, <<"\n">>, Join(cleaned_lines, "\n")))

\* IsFlowchart tried at the start of the text only
IsFlowchartFirstLine(c) == MatchAt(c, FlowchartPattern, 1, NoCaps).ok

\* _is_flowchart
IsFlowchart(c) == Search(c, FlowchartPattern, 1).ok

\* AddDeclared without the test on seen_ids: every match adds a node
RECURSIVE AddDeclaredUnseen(_, _, _, _)
AddDeclaredUnseen(acc, c, ms, node_type) ==
    IF ms = <<>> THEN acc
    ELSE LET node_id == GroupOf(c, Head(ms), 1)
             label   == Strip(GroupOf(c, Head(ms), 2))
         IN  AddDeclaredUnseen([nodes    |-> Append(acc.nodes, GRDNode(node_id, label, node_type)),
                                seen_ids |-> acc.seen_ids \cup {node_id}],
                               c, Tail(ms), node_type)

\* the inner loop of _parse_nodes over the matches of one shape pattern;
\* acc = [nodes, seen_ids]
RECURSIVE AddDeclared(_, _, _, _)
AddDeclared(acc, c, ms, node_type) ==
    IF ms = <<>> THEN acc
    ELSE LET node_id == GroupOf(c, Head(ms), 1)
             label   == Strip(GroupOf(c, Head(ms), 2))
         IN  AddDeclared(IF node_id \notin acc.seen_ids
                         THEN [nodes    |-> Append(acc.nodes, GRDNode(node_id, label, node_type)),
                               seen_ids |-> acc.seen_ids \cup {node_id}]
                         ELSE acc,
                         c, Tail(ms), node_type)

\* the loop of _parse_nodes over NODE_PATTERNS, from pattern i on
RECURSIVE ScanPatterns(_, _, _)
ScanPatterns(acc, c, i) ==
    IF i > Len(NODE_PATTERNS) THEN acc
    ELSE ScanPatterns(AddDeclared(acc, c, FindIter(c, NODE_PATTERNS[i].re),
                                  NODE_PATTERNS[i].node_type),
                      c, i + 1)

\* for group_idx in [1, 3, 4, 6] on one match of EDGE_PATTERN
RECURSIVE AddEndpoints(_, _, _, _)
AddEndpoints(acc, c, m, groups) ==
    IF groups = <<>> THEN acc
    ELSE LET node_id == GroupOf(c, m, Head(groups)) IN
         AddEndpoints(IF node_id # None /\ node_id \notin acc.seen_ids
                      THEN [nodes    |-> Append(acc.nodes, GRDNode(node_id, node_id, "rectangle")),
                            seen_ids |-> acc.seen_ids \cup {node_id}]
                      ELSE acc,
                      c, m, Tail(groups))

\* the loop of _parse_nodes over the matches of EDGE_PATTERN
RECURSIVE AddImplicit(_, _, _)
AddImplicit(acc, c, ms) ==
    IF ms = <<>> THEN acc
    ELSE AddImplicit(AddEndpoints(acc, c, Head(ms), <<1, 3, 4, 6>>), c, Tail(ms))

\* _parse_nodes
ParseNodes(c) ==
    AddImplicit(ScanPatterns([nodes |-> <<>>, seen_ids |-> {}], c, 1),
                c, FindIter(c, EDGE_PATTERN)).nodes

\* the first loop of _parse_edges
RECURSIVE AddLabeled(_, _, _, _)
AddLabeled(es, c, ms, node_ids) ==
    IF ms = <<>> THEN es
    ELSE LET from_node == GroupOf(c, Head(ms), 1)
             label     == Strip(GroupOf(c, Head(ms), 2))
             to_node   == GroupOf(c, Head(ms), 3)
         IN  AddLabeled(IF from_node \in node_ids /\ to_node \in node_ids
                        THEN Append(es, GRDEdge(from_node, to_node, label, <<"-", "-", ">">>))
                        ELSE es,
                        c, Tail(ms), node_ids)

\* AddSimple without the test that the target is a known node id
RECURSIVE AddSimpleAnyTarget(_, _, _, _)
AddSimpleAnyTarget(es, c, ms, node_ids) ==
    IF ms = <<>> THEN es
    ELSE LET from_node  == GroupOf(c, Head(ms), 1)
             edge_style == GroupOf(c, Head(ms), 2)
             to_node    == GroupOf(c, Head(ms), 3)
             already_captured ==
                 \E i \in 1..Len(es) : es[i].from_node = from_node /\ es[i].to_node = to_node
         IN  AddSimpleAnyTarget(IF ~already_captured /\ from_node \in node_ids
                                THEN Append(es, GRDEdge(from_node, to_node, None, Strip(edge_style)))
                                ELSE es,
                                c, Tail(ms), node_ids)

\* AddSimple without the test on already_captured
RECURSIVE AddSimpleNoSkip(_, _, _, _)
AddSimpleNoSkip(es, c, ms, node_ids) ==
    IF ms = <<>> THEN es
    ELSE LET from_node  == GroupOf(c, Head(ms), 1)
             edge_style == GroupOf(c, Head(ms), 2)
             to_node    == GroupOf(c, Head(ms), 3)
         IN  AddSimpleNoSkip(IF from_node \in node_ids /\ to_node \in node_ids
                             THEN Append(es, GRDEdge(from_node, to_node, None, Strip(edge_style)))
                             ELSE es,
                             c, Tail(ms), node_ids)

\* the second loop of _parse_edges
RECURSIVE AddSimple(_, _, _, _)
AddSimple(es, c, ms, node_ids) ==
    IF ms = <<>> THEN es
    ELSE LET from_node  == GroupOf(c, Head(ms), 1)
             edge_style == GroupOf(c, Head(ms), 2)
             to_node    == GroupOf(c, Head(ms), 3)
             already_captured ==
                 \E i \in 1..Len(es) : es[i].from_node = from_node /\ es[i].to_node = to_node
         IN  AddSimple(IF ~already_captured /\ from_node \in node_ids /\ to_node \in node_ids
                       THEN Append(es, GRDEdge(from_node, to_node, None, Strip(edge_style)))
                       ELSE es,
                       c, Tail(ms), node_ids)

\* _parse_edges
ParseEdges(c, ns) ==
    LET node_ids == NodeIds(ns) IN
    AddSimple(AddLabeled(<<>>, c, FindIter(c, LabeledPattern), node_ids),
              c, FindIter(c, SimplePattern), node_ids)

\* the orders in which a Python set may be iterated
Orders(S) == {f \in [1..Cardinality(S) -> S] : \A i, j \in 1..Cardinality(S) : i # j => f[i] # f[j]}

\* [x for x in order if x not in excluded]
RECURSIVE Without(_, _)
Without(order, excluded) ==
    IF order = <<>> THEN <<>>
    ELSE (IF Head(order) \in excluded THEN <<>> ELSE <<Head(order)>>) \o Without(Tail(order), excluded)

\* IdentifyStartEndNodes with the two edge ends taken for one another
IdentifyStartEndNodesSwapped(order, es) ==
    LET has_incoming == {es[i].from_node : i \in 1..Len(es)}
        has_outgoing == {es[i].to_node : i \in 1..Len(es)}
    IN  [start_nodes |-> Without(order, has_incoming),
         end_nodes   |-> Without(order, has_outgoing)]

\* _identify_start_end_nodes, node_ids being iterated in the given order
IdentifyStartEndNodes(order, es) ==
    LET has_incoming == {es[i].to_node : i \in 1..Len(es)}
        has_outgoing == {es[i].from_node : i \in 1..Len(es)}
    IN  [start_nodes |-> Without(order, has_incoming),
         end_nodes   |-> Without(order, has_outgoing)]

----------------------------------------------------------------------------
(* MermaidParser.parse, one action per statement.                          *)

EmptyError == <<"M", "e", "r", "m", "a", "i", "d", " ", "c", "o", "d", "e", " ", "c", "a", "n", "n", "o", "t", " ", "b", "e", " ", "e", "m", "p", "t", "y">>
FlowchartError == <<"O", "n", "l", "y", " ", "f", "l", "o", "w", "c", "h", "a", "r", "t", " ", "d", "i", "a", "g", "r", "a", "m", "s", " ", "a", "r", "e", " ", "s", "u", "p", "p", "o", "r", "t", "e", "d">>

\* lines 135-136
Parse_CheckEmpty ==
    /\ pc = "parse_start"
    /\ IF mermaid_code = <<>>
       THEN pc' = "parse_raised" /\ error' = EmptyError
       ELSE pc' = "parse_clean" /\ error' = error
    /\ UNCHANGED <<genVars, callVars, mermaid_code, code, grdVars, geoVars>>

\* line 139
Parse_Clean ==
    /\ pc = "parse_clean"
    /\ code' = CleanCode(mermaid_code)
    /\ pc' = "parse_check"
    /\ UNCHANGED <<genVars, callVars, mermaid_code, error, grdVars, geoVars>>

\* lines 142-143
Parse_CheckFlowchart ==
    /\ pc = "parse_check"
    /\ IF ~IsFlowchart(code)
       THEN pc' = "parse_raised" /\ error' = FlowchartError
       ELSE pc' = "parse_nodes" /\ error' = error
    /\ UNCHANGED <<genVars, callVars, mermaid_code, code, grdVars, geoVars>>

\* Parse_Nodes turning down a text in which it finds no node
Parse_NodesRequired ==
    /\ pc = "parse_nodes"
    /\ nodes' = ParseNodes(code)
    /\ IF ParseNodes(code) = <<>>
       THEN pc' = "parse_raised" /\ error' = FlowchartError
       ELSE pc' = "parse_edges" /\ error' = error
    /\ UNCHANGED <<genVars, callVars, mermaid_code, code, edges, start_nodes, end_nodes, geoVars>>

\* line 146
Parse_Nodes ==
    /\ pc = "parse_nodes"
    /\ nodes' = ParseNodes(code)
    /\ pc' = "parse_edges"
    /\ UNCHANGED <<genVars, callVars, mermaid_code, code, error, edges, start_nodes, end_nodes, geoVars>>

\* line 149
Parse_Edges ==
    /\ pc = "parse_edges"
    /\ edges' = ParseEdges(code, nodes)
    /\ pc' = "parse_identify"
    /\ UNCHANGED <<genVars, callVars, mermaid_code, code, error, nodes, start_nodes, end_nodes, geoVars>>

\* lines 152-154
Parse_Identify ==
    /\ pc = "parse_identify"
    /\ \E order \in Orders(NodeIds(nodes)) :
          LET r == IdentifyStartEndNodes(order, edges) IN
          /\ start_nodes' = r.start_nodes
          /\ end_nodes' = r.end_nodes
    /\ pc' = "parse_done"
    /\ UNCHANGED <<genVars, callVars, mermaid_code, code, error, nodes, edges, geoVars>>

----------------------------------------------------------------------------
(* The texts parse is run on: nothing, one statement without a header, or  *)
(* the header followed by at most MaxStmts statements, one per line.       *)

Header == <<"g", "r", "a", "p", "h">>

\* node declarations: the same id under several shapes and labels
\*   A[x]   A[z]   A(y)   A{{x}}   B[y]
Declarations == {
    <<"A", "[", "x", "]">>,
    <<"A", "[", "z", "]">>,
    <<"A", "(", "y", ")">>,
    <<"A", "{", "{", "x", "}", "}">>,
    <<"B", "[", "y", "]">> }

\* edges between bare ids: thin and thick connectors, plain and labelled,
\* both directions and a self-loop
\*   A --> B   A==>B   A-->|l|B   A==>|m|B   (the same from B to A)
\*   A --> A   A-->|l|A
PlainEdges == {
    <<"A", " ", "-", "-", ">", " ", "B">>,
    <<"A", "=", "=", ">", "B">>,
    <<"A", "-", "-", ">", "|", "l", "|", "B">>,
    <<"A", "=", "=", ">", "|", "m", "|", "B">>,
    <<"B", " ", "-", "-", ">", " ", "A">>,
    <<"B", "=", "=", ">", "A">>,
    <<"B", "-", "-", ">", "|", "l", "|", "A">>,
    <<"B", "=", "=", ">", "|", "m", "|", "A">>,
    <<"A", " ", "-", "-", ">", " ", "A">>,
    <<"A", "-", "-", ">", "|", "l", "|", "A">> }

\* edges with a shape bracket on an endpoint
\*   A[x] --> B   A --> B[y]   A{{x}} --> B
BracketedEdges == {
    <<"A", "[", "x", "]", " ", "-", "-", ">", " ", "B">>,
    <<"A", " ", "-", "-", ">", " ", "B", "[", "y", "]">>,
    <<"A", "{", "{", "x", "}", "}", " ", "-", "-", ">", " ", "B">> }

Statements == Declarations \cup PlainEdges \cup BracketedEdges

RECURSIVE Lines(_)
Lines(ss) == IF ss = <<>> THEN <<>> ELSE <<"\n">> \o Head(ss) \o Lines(Tail(ss))

ParseTexts ==
    {<<>>} \cup Statements \cup {Header \o Lines(ss) : ss \in SeqsUpTo(Statements, MaxStmts)}

InitParse ==
    /\ pc = "parse_start"
    /\ mermaid_code \in ParseTexts
    /\ code = <<>>
    /\ error = None
    /\ nodes = <<>>
    /\ edges = <<>>
    /\ start_nodes = <<>>
    /\ end_nodes = <<>>
    /\ in_degree = <<>>
    /\ graph = <<>>
    /\ queue = <<>>
    /\ result = <<>>
    /\ stack = <<>>
    /\ ret = None
    /\ self = None
    /\ fwd = None
    /\ calls = <<>>
    /\ gen = None
    /\ heap = <<>>
    /\ generators = <<>>

NextParse ==
    \/ Parse_CheckEmpty
    \/ Parse_Clean
    \/ Parse_CheckFlowchart
    \/ Parse_Nodes
    \/ Parse_Edges
    \/ Parse_Identify

SpecParse == InitParse /\ [][NextParse]_vars

----------------------------------------------------------------------------
(* MermaidParser.validate: the call of parse inside try, and the two ways  *)
(* out.  parse raises nothing but the two ValueErrors of lines 136 and 143 *)
(* on a text, so the except clause of line 301 takes every exception.      *)

\* lines 298-299: self.parse(mermaid_code) is entered
Validate_Call ==
    /\ pc = "validate_start"
    /\ stack' = <<"validate">> \o stack
    /\ pc' = "parse_start"
    /\ UNCHANGED <<genVars, grdVars, geoVars, parseVars, ret, self, fwd, calls>>

\* line 300: parse has returned
Validate_Return ==
    /\ pc = "parse_done"
    /\ stack # <<>> /\ Head(stack) = "validate"
    /\ ret' = <<TRUE, None>>
    /\ stack' = Tail(stack)
    /\ pc' = "validate_done"
    /\ UNCHANGED <<genVars, grdVars, geoVars, parseVars, self, fwd, calls>>

\* Validate_Except without the message
Validate_ExceptNoReason ==
    /\ pc = "parse_raised"
    /\ stack # <<>> /\ Head(stack) = "validate"
    /\ ret' = <<FALSE, None>>
    /\ stack' = Tail(stack)
    /\ pc' = "validate_done"
    /\ UNCHANGED <<genVars, grdVars, geoVars, parseVars, self, fwd, calls>>

\* lines 301-302: parse has raised ValueError(error)
Validate_Except ==
    /\ pc = "parse_raised"
    /\ stack # <<>> /\ Head(stack) = "validate"
    /\ ret' = <<FALSE, error>>
    /\ stack' = Tail(stack)
    /\ pc' = "validate_done"
    /\ UNCHANGED <<genVars, grdVars, geoVars, parseVars, self, fwd, calls>>

----------------------------------------------------------------------------
(* The texts validate and _clean_code are run on: at most MaxLines lines,  *)
(* each one of LinePieces, joined by line breaks.  No line gives the empty *)
(* text, blank lines alone a text of whitespace.                           *)

\* largest number of lines of a text given to validate or to _clean_code
MaxLines == 3

\* a blank line, a line of one space, a header (capital G), a header inside
\* a comment, an opening fence whose language tag is a header, a bare fence,
\* an edge, and an edge towards an id that begins with a header
LinePieces == {
    <<>>,
    <<" ">>,
    <<"G", "r", "a", "p", "h">>,
    <<"%", "%", "g", "r", "a", "p", "h">>,
    Fence \o <<"g", "r", "a", "p", "h">>,
    Fence,
    <<"A", "-", "-", ">", "B">>,
    <<"A", "-", "-", ">", "g", "r", "a", "p", "h">> }

LineTexts == {Join(ls, "\n") : ls \in SeqsUpTo(LinePieces, MaxLines)}

InitValidate ==
    /\ pc = "validate_start"
    /\ mermaid_code \in LineTexts
    /\ code = <<>>
    /\ error = None
    /\ nodes = <<>>
    /\ edges = <<>>
    /\ start_nodes = <<>>
    /\ end_nodes = <<>>
    /\ in_degree = <<>>
    /\ graph = <<>>
    /\ queue = <<>>
    /\ result = <<>>
    /\ stack = <<>>
    /\ ret = None
    /\ self = None
    /\ fwd = None
    /\ calls = <<>>
    /\ gen = None
    /\ heap = <<>>
    /\ generators = <<>>

NextValidate ==
    \/ Validate_Call
    \/ Parse_CheckEmpty
    \/ Parse_Clean
    \/ Parse_CheckFlowchart
    \/ Parse_Nodes
    \/ Parse_Edges
    \/ Parse_Identify
    \/ Validate_Return
    \/ Validate_Except

SpecValidate == InitValidate /\ [][NextValidate]_vars

----------------------------------------------------------------------------
(* _clean_code on its own, applied to a text and then to its own output.   *)

\* code = self._clean_code(text)
Clean_Once ==
    /\ pc = "clean_start"
    /\ code' = CleanCode(mermaid_code)
    /\ pc' = "clean_once"
    /\ UNCHANGED <<genVars, callVars, grdVars, geoVars, mermaid_code, error>>

\* self._clean_code(code)
Clean_Twice ==
    /\ pc = "clean_once"
    /\ ret' = CleanCode(code)
    /\ pc' = "clean_twice"
    /\ UNCHANGED <<genVars, grdVars, geoVars, parseVars, stack, self, fwd, calls>>

InitClean ==
    /\ pc = "clean_start"
    /\ mermaid_code \in LineTexts
    /\ code = <<>>
    /\ error = None
    /\ nodes = <<>>
    /\ edges = <<>>
    /\ start_nodes = <<>>
    /\ end_nodes = <<>>
    /\ in_degree = <<>>
    /\ graph = <<>>
    /\ queue = <<>>
    /\ result = <<>>
    /\ stack = <<>>
    /\ ret = None
    /\ self = None
    /\ fwd = None
    /\ calls = <<>>
    /\ gen = None
    /\ heap = <<>>
    /\ generators = <<>>

NextClean ==
    \/ Clean_Once
    \/ Clean_Twice

SpecClean == InitClean /\ [][NextClean]_vars

----------------------------------------------------------------------------
(* BraidReasoning.forward (src/braid/module.py).  The language model is    *)
(* outside the program: a call of self.plan, of self.generator.generate or *)
(* of self.execute_step is a choice among the outcomes the call can have.  *)
(* The prompt text handed to execute_step is not part of the result and is *)
(* left out.                                                               *)

\* largest value of max_execution_steps
MaxSteps == 2

\* smallest value of max_execution_steps: __init__ stores the number it is
\* given and puts no condition on it
MinSteps == -1

\* result and len(result) < 500 in _extract_answer
ReasonableLength == 500

Problem == <<"p">>

InvalidGrdPrefix == <<"I", "n", "v", "a", "l", "i", "d", " ", "G", "R", "D", ":", " ">>
FailedToParsePrefix == <<"F", "a", "i", "l", "e", "d", " ", "t", "o", " ", "p", "a", "r", "s", "e", " ", "G", "R", "D", ":", " ">>
NoExecutionOrder == <<"G", "R", "D", " ", "h", "a", "s", " ", "n", "o", " ", "e", "x", "e", "c", "u", "t", "i", "o", "n", " ", "o", "r", "d", "e", "r">>
CouldNotExtract == <<"C", "o", "u", "l", "d", " ", "n", "o", "t", " ", "e", "x", "t", "r", "a", "c", "t", " ", "M", "e", "r", "m", "a", "i", "d", " ", "c", "o", "d", "e", " ", "f", "r", "o", "m", " ", "r", "e", "s", "p", "o", "n", "s", "e">>
ErrorPrefix == <<"E", "r", "r", "o", "r", ":", " ">>

\* the diagrams forward is run on, by their statements:
\*   no statement; A[x]; A-->B; the cycle A-->B, B-->A;
\*   A-->B with the cycle B-->C, C-->B behind it; A-->B, A-->C
Edge(a, b) == <<a, "-", "-", ">", b>>

ForwardDiagrams == {
    <<>>,
    << <<"A", "[", "x", "]">> >>,
    << Edge("A", "B") >>,
    << Edge("A", "B"), Edge("B", "A") >>,
    << Edge("A", "B"), Edge("B", "C"), Edge("C", "B") >>,
    << Edge("A", "B"), Edge("A", "C") >> }

\* the texts of a GRD: the empty text, a diagram without header, and the
\* diagrams above behind a header
ForwardTexts == {<<>>, Edge("A", "B")} \cup {Header \o Lines(ss) : ss \in ForwardDiagrams}

\* what self.generator.generate returns, as far as forward reads it: no code
\* with an error, or code that is not empty
GenerationResults ==
    {[grd |-> None, error |-> CouldNotExtract]}
        \cup {[grd |-> t, error |-> None] : t \in ForwardTexts \ {<<>>}}

\* what a call of self.execute_step does: step_output is a text (empty,
\* short, or of ReasonableLength characters), or the call raises
StepOutputs == {<<>>, <<"r">>, [i \in 1..ReasonableLength |-> "r"]}

StepErrors == {<<"e">>}

\* GRDStructure(nodes=..., edges=..., start_nodes=..., end_nodes=...) as a
\* value handed around: a tuple, which can be told from None
GRDStructure(ns, es, starts, ends) == <<ns, es, starts, ends>>
NodesOf(grd) == grd[1]
EndNodesOf(grd) == grd[4]

\* BraidResult(...)
BraidResult(grd, parsed_grd, reasoning_steps, answer, execution_trace, valid, err) ==
    [problem |-> Problem, grd |-> grd, parsed_grd |-> parsed_grd,
     reasoning_steps |-> reasoning_steps, answer |-> answer,
     execution_trace |-> execution_trace, valid |-> valid, error |-> err]

\* the BraidResult of the early returns: nothing parsed, no step, no answer
Rejected(grd, parsed_grd, execution_trace, err) ==
    BraidResult(grd, parsed_grd, <<>>, <<>>, execution_trace, FALSE, err)

\* GRDStructure.get_node_by_id
RECURSIVE get_node_by_id(_, _)
get_node_by_id(ns, node_id) ==
    IF ns = <<>> THEN None
    ELSE IF Head(ns).id = node_id THEN Head(ns) ELSE get_node_by_id(Tail(ns), node_id)

\* Bounded without the bound
Unbounded(order, max_execution_steps) == order

\* execution_order[: self.max_execution_steps], a slice: a stop below zero
\* counts from the end of the order, and a stop outside the order is clipped
Bounded(order, max_execution_steps) ==
    LET stop == IF max_execution_steps < 0
                THEN Len(order) + max_execution_steps
                ELSE max_execution_steps
    IN  SubSeq(order, 1, IF stop < 0 THEN 0 ELSE IF Len(order) < stop THEN Len(order) ELSE stop)

\* the loop over grd.end_nodes in _extract_answer: the first end node with a
\* result that is not empty and shorter than ReasonableLength, None if none
RECURSIVE EndNodeAnswer(_, _)
EndNodeAnswer(ends, step_results) ==
    IF ends = <<>> THEN None
    ELSE LET r == DictGet(step_results, Head(ends), None) IN
         IF Head(ends) \in DictKeys(step_results) /\ r # <<>> /\ Len(r) < ReasonableLength
         THEN r
         ELSE EndNodeAnswer(Tail(ends), step_results)

\* "\n".join(f"{node_id}: {result}" for node_id, result in step_results.items())
AllResults(step_results) ==
    Join([i \in 1..Len(step_results) |-> step_results[i].k \o <<":", " ">> \o step_results[i].v],
         "\n")

\* _extract_answer
ExtractAnswer(grd, step_results, reasoning_steps) ==
    LET a == EndNodeAnswer(EndNodesOf(grd), step_results) IN
    IF a # None THEN a
    ELSE IF reasoning_steps # <<>> THEN reasoning_steps[Len(reasoning_steps)].result
    ELSE IF step_results # <<>> THEN AllResults(step_results)
    ELSE <<>>

\* lines 90-119: the planning phase
Fwd_Plan ==
    /\ pc = "fwd_start"
    /\ IF fwd.grd = None
       THEN IF self.use_generator
            THEN \E generation_result \in GenerationResults :
                    IF generation_result.grd = None
                    THEN /\ ret' = Rejected(<<>>, None, <<>>, generation_result.error)
                         /\ fwd' = fwd
                         /\ pc' = "fwd_done"
                    ELSE /\ fwd' = [fwd EXCEPT !.grd = generation_result.grd]
                         /\ ret' = ret
                         /\ pc' = "fwd_validate"
            ELSE \/ \E t \in ForwardTexts :
                       /\ fwd' = [fwd EXCEPT !.grd = t,
                                             !.execution_trace =
                                                 <<[phase |-> "planning", method |-> "dspy_signature",
                                                    grd |-> t]>>]
                       /\ ret' = ret
                       /\ pc' = "fwd_validate"
                 \/ /\ pc' = "fwd_raised"
                    /\ UNCHANGED <<genVars, fwd, ret>>
       ELSE /\ fwd' = [fwd EXCEPT !.execution_trace =
                                      <<[phase |-> "planning", method |-> "provided",
                                         grd |-> fwd.grd]>>]
            /\ ret' = ret
            /\ pc' = "fwd_validate"
    /\ UNCHANGED <<genVars, grdVars, geoVars, parseVars, stack, self, calls>>

\* lines 122-124: self.parser.validate(grd) is entered when asked for
Fwd_Validate ==
    /\ pc = "fwd_validate"
    /\ IF self.validate_grd
       THEN /\ mermaid_code' = fwd.grd
            /\ stack' = <<"forward">> \o stack
            /\ pc' = "validate_start"
       ELSE /\ pc' = "fwd_parse"
            /\ UNCHANGED <<genVars, mermaid_code, stack>>
    /\ UNCHANGED <<genVars, grdVars, geoVars, code, error, ret, self, fwd, calls>>

\* lines 124-135: validate has returned (is_valid, error_msg)
Fwd_Validated ==
    /\ pc = "validate_done"
    /\ stack # <<>> /\ Head(stack) = "forward"
    /\ stack' = Tail(stack)
    /\ IF ~ret[1]
       THEN /\ ret' = Rejected(fwd.grd, None, fwd.execution_trace, InvalidGrdPrefix \o ret[2])
            /\ pc' = "fwd_done"
       ELSE /\ ret' = ret
            /\ pc' = "fwd_parse"
    /\ UNCHANGED <<genVars, grdVars, geoVars, parseVars, self, fwd, calls>>

\* lines 138-139: self.parser.parse(grd) is entered
Fwd_Parse ==
    /\ pc = "fwd_parse"
    /\ mermaid_code' = fwd.grd
    /\ code' = <<>>
    /\ error' = None
    /\ nodes' = <<>>
    /\ edges' = <<>>
    /\ start_nodes' = <<>>
    /\ end_nodes' = <<>>
    /\ stack' = <<"forward">> \o stack
    /\ pc' = "parse_start"
    /\ UNCHANGED <<genVars, geoVars, ret, self, fwd, calls>>

\* Fwd_ParseExcept with the result marked valid
Fwd_ParseExceptValid ==
    /\ pc = "parse_raised"
    /\ stack # <<>> /\ Head(stack) = "forward"
    /\ stack' = Tail(stack)
    /\ ret' = BraidResult(fwd.grd, None, <<>>, <<>>, fwd.execution_trace, TRUE,
                          FailedToParsePrefix \o error)
    /\ pc' = "fwd_done"
    /\ UNCHANGED <<genVars, grdVars, geoVars, parseVars, self, fwd, calls>>

\* lines 140-150: parse has raised
Fwd_ParseExcept ==
    /\ pc = "parse_raised"
    /\ stack # <<>> /\ Head(stack) = "forward"
    /\ stack' = Tail(stack)
    /\ ret' = Rejected(fwd.grd, None, fwd.execution_trace, FailedToParsePrefix \o error)
    /\ pc' = "fwd_done"
    /\ UNCHANGED <<genVars, grdVars, geoVars, parseVars, self, fwd, calls>>

\* lines 139 and 153: parse has returned the graph, get_execution_order is
\* entered on it
Fwd_GetOrder ==
    /\ pc = "parse_done"
    /\ stack # <<>> /\ Head(stack) = "forward"
    /\ fwd' = [fwd EXCEPT !.parsed_grd = GRDStructure(nodes, edges, start_nodes, end_nodes)]
    /\ pc' = "geo_build"
    /\ UNCHANGED <<genVars, grdVars, geoVars, parseVars, stack, ret, self, calls>>

\* Fwd_CheckOrder turning down every order shorter than the node list
Fwd_CheckOrderComplete ==
    /\ pc = "geo_done"
    /\ stack # <<>> /\ Head(stack) = "forward"
    /\ stack' = Tail(stack)
    /\ IF Len(result) < Len(nodes) \/ result = <<>>
       THEN /\ ret' = Rejected(fwd.grd, fwd.parsed_grd, fwd.execution_trace, NoExecutionOrder)
            /\ fwd' = [fwd EXCEPT !.execution_order = result]
            /\ pc' = "fwd_done"
       ELSE /\ fwd' = [fwd EXCEPT !.execution_order = result, !.step_results = <<>>,
                                  !.step_idx = 0]
            /\ ret' = ret
            /\ pc' = "fwd_loop"
    /\ UNCHANGED <<genVars, grdVars, geoVars, parseVars, self, calls>>

\* lines 153-169: the order has come back; an empty one ends the call
Fwd_CheckOrder ==
    /\ pc = "geo_done"
    /\ stack # <<>> /\ Head(stack) = "forward"
    /\ stack' = Tail(stack)
    /\ IF result = <<>>
       THEN /\ ret' = Rejected(fwd.grd, fwd.parsed_grd, fwd.execution_trace, NoExecutionOrder)
            /\ fwd' = [fwd EXCEPT !.execution_order = result]
            /\ pc' = "fwd_done"
       ELSE /\ fwd' = [fwd EXCEPT !.execution_order = result, !.step_results = <<>>,
                                  !.step_idx = 0]
            /\ ret' = ret
            /\ pc' = "fwd_loop"
    /\ UNCHANGED <<genVars, grdVars, geoVars, parseVars, self, calls>>

\* Fwd_Step numbering the steps by the successful ones before them
Fwd_StepRenumbered ==
    /\ pc = "fwd_loop"
    /\ fwd.step_idx < Len(Bounded(fwd.execution_order, self.max_execution_steps))
    /\ LET step_idx == fwd.step_idx
           node_id  == fwd.execution_order[step_idx + 1]
           node     == get_node_by_id(NodesOf(fwd.parsed_grd), node_id)
       IN  IF node_id \notin NodeIds(NodesOf(fwd.parsed_grd))
           THEN /\ fwd' = [fwd EXCEPT !.step_idx = step_idx + 1]
                /\ calls' = calls
           ELSE /\ calls' = Append(calls, node_id)
                /\ \/ \E step_output \in StepOutputs :
                         fwd' = [fwd EXCEPT
                            !.reasoning_steps =
                                Append(@, [step_id |-> node_id,
                                           step_number |-> Len(fwd.reasoning_steps) + 1,
                                           label |-> node.label, result |-> step_output,
                                           node_type |-> node.node_type]),
                            !.step_results = DictSet(@, node_id, step_output),
                            !.execution_trace =
                                Append(@, [phase |-> "execution", step |-> step_idx + 1,
                                           node_id |-> node_id, result |-> step_output]),
                            !.step_idx = step_idx + 1]
                   \/ \E e \in StepErrors :
                         fwd' = [fwd EXCEPT
                            !.execution_trace =
                                Append(@, [phase |-> "execution", step |-> step_idx + 1,
                                           node_id |-> node_id, error |-> e]),
                            !.step_results = DictSet(@, node_id, ErrorPrefix \o e),
                            !.step_idx = step_idx + 1]
    /\ pc' = "fwd_loop"
    /\ UNCHANGED <<genVars, grdVars, geoVars, parseVars, stack, ret, self>>

\* lines 171-224: one iteration of the loop over the bounded order; node is
\* None exactly when node_id is the id of no node
Fwd_Step ==
    /\ pc = "fwd_loop"
    /\ fwd.step_idx < Len(Bounded(fwd.execution_order, self.max_execution_steps))
    /\ LET step_idx == fwd.step_idx
           node_id  == fwd.execution_order[step_idx + 1]
           node     == get_node_by_id(NodesOf(fwd.parsed_grd), node_id)
       IN  IF node_id \notin NodeIds(NodesOf(fwd.parsed_grd))
           THEN /\ fwd' = [fwd EXCEPT !.step_idx = step_idx + 1]
                /\ calls' = calls
           ELSE /\ calls' = Append(calls, node_id)
                /\ \/ \E step_output \in StepOutputs :
                         fwd' = [fwd EXCEPT
                            !.reasoning_steps =
                                Append(@, [step_id |-> node_id, step_number |-> step_idx + 1,
                                           label |-> node.label, result |-> step_output,
                                           node_type |-> node.node_type]),
                            !.step_results = DictSet(@, node_id, step_output),
                            !.execution_trace =
                                Append(@, [phase |-> "execution", step |-> step_idx + 1,
                                           node_id |-> node_id, result |-> step_output]),
                            !.step_idx = step_idx + 1]
                   \/ \E e \in StepErrors :
                         fwd' = [fwd EXCEPT
                            !.execution_trace =
                                Append(@, [phase |-> "execution", step |-> step_idx + 1,
                                           node_id |-> node_id, error |-> e]),
                            !.step_results = DictSet(@, node_id, ErrorPrefix \o e),
                            !.step_idx = step_idx + 1]
    /\ pc' = "fwd_loop"
    /\ UNCHANGED <<genVars, grdVars, geoVars, parseVars, stack, ret, self>>

\* lines 226-237: the loop is over
Fwd_Return ==
    /\ pc = "fwd_loop"
    /\ fwd.step_idx = Len(Bounded(fwd.execution_order, self.max_execution_steps))
    /\ ret' = BraidResult(fwd.grd, fwd.parsed_grd, fwd.reasoning_steps,
                          ExtractAnswer(fwd.parsed_grd, fwd.step_results, fwd.reasoning_steps),
                          fwd.execution_trace, TRUE, None)
    /\ pc' = "fwd_done"
    /\ UNCHANGED <<genVars, grdVars, geoVars, parseVars, stack, self, fwd, calls>>

\* BraidReasoning(use_generator, max_execution_steps, validate_grd) and a
\* call forward(problem, grd) with grd a text or None
InitForward ==
    /\ pc = "fwd_start"
    /\ self \in [use_generator : BOOLEAN, max_execution_steps : MinSteps..MaxSteps,
                 validate_grd : BOOLEAN]
    /\ fwd \in {[grd |-> g, parsed_grd |-> None, reasoning_steps |-> <<>>,
                 step_results |-> <<>>, execution_trace |-> <<>>, execution_order |-> <<>>,
                 step_idx |-> 0] : g \in ForwardTexts \cup {None}}
    /\ calls = <<>>
    /\ gen = None
    /\ heap = <<>>
    /\ generators = <<>>
    /\ stack = <<>>
    /\ ret = None
    /\ mermaid_code = <<>>
    /\ code = <<>>
    /\ error = None
    /\ nodes = <<>>
    /\ edges = <<>>
    /\ start_nodes = <<>>
    /\ end_nodes = <<>>
    /\ in_degree = <<>>
    /\ graph = <<>>
    /\ queue = <<>>
    /\ result = <<>>

NextForward ==
    \/ Fwd_Plan
    \/ Fwd_Validate
    \/ Validate_Call
    \/ Parse_CheckEmpty
    \/ Parse_Clean
    \/ Parse_CheckFlowchart
    \/ Parse_Nodes
    \/ Parse_Edges
    \/ Parse_Identify
    \/ Validate_Return
    \/ Validate_Except
    \/ Fwd_Validated
    \/ Fwd_Parse
    \/ Fwd_ParseExcept
    \/ Fwd_GetOrder
    \/ GEO_Build
    \/ GEO_Seed
    \/ GEO_Step
    \/ GEO_Return
    \/ Fwd_CheckOrder
    \/ Fwd_Step
    \/ Fwd_Return

SpecForward == InitForward /\ [][NextForward]_vars

----------------------------------------------------------------------------
(* GRDGenerator.generate: the retry loop around the model call.  What the   *)
(* model answers and what extract_mermaid_code finds in the answer are      *)
(* drawn from the outcomes a call can have: the call raises, the answer     *)
(* holds no Mermaid code, or it holds a code that is not empty.  The        *)
(* prompt is built before the loop and enters no result; it is left out.    *)

\* largest value of max_retries
MaxRetries == 2

ParsingErrorPrefix == <<"P", "a", "r", "s", "i", "n", "g", " ", "e", "r", "r", "o", "r", ":", " ">>
GenerationFailedAfter == <<"G", "e", "n", "e", "r", "a", "t", "i", "o", "n", " ", "f", "a", "i", "l", "e", "d", " ", "a", "f", "t", "e", "r", " ">>
AttemptsInfix == <<" ", "a", "t", "t", "e", "m", "p", "t", "s", ":", " ">>
MaximumRetries == <<"G", "e", "n", "e", "r", "a", "t", "i", "o", "n", " ", "f", "a", "i", "l", "e", "d", " ", "a", "f", "t", "e", "r", " ", "m", "a", "x", "i", "m", "u", "m", " ", "r", "e", "t", "r", "i", "e", "s">>

DecimalDigits == <<"0", "1", "2", "3", "4", "5", "6", "7", "8", "9">>

\* str(n) of a number that is not negative
RECURSIVE Str(_)
Str(n) ==
    IF n < 10 THEN <<DecimalDigits[n + 1]>>
    ELSE Str(n \div 10) \o <<DecimalDigits[(n % 10) + 1]>>

\* what the model call raises
ModelErrors == {<<"e">>}

\* an answer in which extract_mermaid_code finds no code
PlainResponse == <<"n", "o">>

\* the answers of the model with what extract_mermaid_code returns for them:
\* None, or the code, which is never empty; the code is the diagram itself
\* (an answer that is Mermaid code and nothing else)
Responses ==
    {[raw_response |-> PlainResponse, mermaid_code |-> None]}
        \cup {[raw_response |-> t, mermaid_code |-> t] : t \in ForwardTexts \ {<<>>}}

\* the dict generate returns
GenerateResult(grd, raw_response, parsed_structure, valid, err) ==
    [grd |-> grd, raw_response |-> raw_response, parsed_structure |-> parsed_structure,
     valid |-> valid, error |-> err]

\* line 86 with lines 169-175: range(self.max_retries) is used up; this is
\* reached only when the range is empty, every last attempt returns
Gen_Exhausted ==
    /\ pc = "gen_loop"
    /\ gen.attempt >= self.max_retries
    /\ ret' = GenerateResult(None, None, None, FALSE, MaximumRetries)
    /\ pc' = "gen_done"
    /\ UNCHANGED <<grdVars, geoVars, parseVars, stack, self, fwd, calls, gen, heap, generators>>

\* Gen_ModelRaises letting the exception of the last attempt out
Gen_ModelRaisesThrough ==
    /\ pc = "gen_loop"
    /\ gen.attempt < self.max_retries
    /\ \E e \in ModelErrors :
          /\ gen' = [gen EXCEPT !.attempt = @ + 1,
                                !.log = Append(@, [kind |-> "raised", error |-> e])]
          /\ pc' = IF gen.attempt = self.max_retries - 1 THEN "gen_raised" ELSE "gen_loop"
          /\ ret' = ret
    /\ UNCHANGED <<grdVars, geoVars, parseVars, stack, self, fwd, calls, heap, generators>>

\* lines 87-122 with 158-167: the model call (or what follows it up to the
\* extraction) raises; the last attempt returns, the others go on
Gen_ModelRaises ==
    /\ pc = "gen_loop"
    /\ gen.attempt < self.max_retries
    /\ \E e \in ModelErrors :
          /\ gen' = [gen EXCEPT !.attempt = @ + 1,
                                !.log = Append(@, [kind |-> "raised", error |-> e])]
          /\ IF gen.attempt = self.max_retries - 1
             THEN /\ ret' = GenerateResult(None, None, None, FALSE,
                                GenerationFailedAfter \o Str(self.max_retries)
                                    \o AttemptsInfix \o e)
                  /\ pc' = "gen_done"
             ELSE /\ ret' = ret
                  /\ pc' = "gen_loop"
    /\ UNCHANGED <<grdVars, geoVars, parseVars, stack, self, fwd, calls, heap, generators>>

\* lines 122-133: the answer holds no code
Gen_NoCode ==
    /\ pc = "gen_loop"
    /\ gen.attempt < self.max_retries
    /\ \E r \in Responses :
          /\ r.mermaid_code = None
          /\ gen' = [gen EXCEPT !.attempt = @ + 1,
                                !.raw_response = r.raw_response,
                                !.mermaid_code = None,
                                !.log = Append(@, [kind |-> "no_code",
                                                   raw_response |-> r.raw_response])]
          /\ IF gen.attempt < self.max_retries - 1
             THEN /\ ret' = ret
                  /\ pc' = "gen_loop"
             ELSE /\ ret' = GenerateResult(None, r.raw_response, None, FALSE, CouldNotExtract)
                  /\ pc' = "gen_done"
    /\ UNCHANGED <<grdVars, geoVars, parseVars, stack, self, fwd, calls, heap, generators>>

\* lines 122 and 136: the answer holds a code and self.parser.validate is
\* entered on it; gen.attempt is the attempt under way until validate returns
Gen_Validate ==
    /\ pc = "gen_loop"
    /\ gen.attempt < self.max_retries
    /\ \E r \in Responses :
          /\ r.mermaid_code # None
          /\ gen' = [gen EXCEPT !.raw_response = r.raw_response,
                                !.mermaid_code = r.mermaid_code,
                                !.log = Append(@, [kind |-> "code",
                                                   raw_response |-> r.raw_response,
                                                   mermaid_code |-> r.mermaid_code])]
          /\ mermaid_code' = r.mermaid_code
    /\ code' = <<>>
    /\ error' = None
    /\ stack' = <<"generate">> \o stack
    /\ pc' = "validate_start"
    /\ UNCHANGED <<grdVars, geoVars, ret, self, fwd, calls, heap, generators>>

\* Gen_Validated returning the first code that does not validate
Gen_ValidatedNoRetry ==
    /\ pc = "validate_done"
    /\ stack # <<>> /\ Head(stack) = "generate"
    /\ gen' = [gen EXCEPT !.attempt = @ + 1]
    /\ IF ret[1]
       THEN /\ pc' = "parse_start"
            /\ ret' = ret
            /\ stack' = stack
       ELSE /\ ret' = GenerateResult(gen.mermaid_code, gen.raw_response, None, FALSE, ret[2])
            /\ stack' = Tail(stack)
            /\ pc' = "gen_done"
    /\ UNCHANGED <<grdVars, geoVars, parseVars, self, fwd, calls, heap, generators>>

\* lines 136-145 and 150-156: validate has returned (is_valid, error_msg); a
\* code that does not validate is given up for the next attempt while one is
\* left and returned otherwise; a code that validates goes to self.parser.parse
Gen_Validated ==
    /\ pc = "validate_done"
    /\ stack # <<>> /\ Head(stack) = "generate"
    /\ gen' = [gen EXCEPT !.attempt = @ + 1]
    /\ IF ~ret[1] /\ gen.attempt < self.max_retries - 1
       THEN /\ pc' = "gen_loop"
            /\ ret' = ret
            /\ stack' = Tail(stack)
       ELSE IF ret[1]
            THEN /\ pc' = "parse_start"
                 /\ ret' = ret
                 /\ stack' = stack
            ELSE /\ ret' = GenerateResult(gen.mermaid_code, gen.raw_response, None,
                                          FALSE, ret[2])
                 /\ stack' = Tail(stack)
                 /\ pc' = "gen_done"
    /\ UNCHANGED <<grdVars, geoVars, parseVars, self, fwd, calls, heap, generators>>

\* lines 145-156: parse has returned the structure, or has raised and the
\* except clause of line 146 has made a message of it
Gen_Parsed ==
    /\ pc \in {"parse_done", "parse_raised"}
    /\ stack # <<>> /\ Head(stack) = "generate"
    /\ stack' = Tail(stack)
    /\ ret' = IF pc = "parse_raised"
              THEN GenerateResult(gen.mermaid_code, gen.raw_response, None, FALSE,
                                  ParsingErrorPrefix \o error)
              ELSE GenerateResult(gen.mermaid_code, gen.raw_response,
                                  GRDStructure(nodes, edges, start_nodes, end_nodes),
                                  TRUE, None)
    /\ pc' = "gen_done"
    /\ UNCHANGED <<grdVars, geoVars, parseVars, self, fwd, calls, gen, heap, generators>>

\* GRDGenerator(max_retries=...).generate(problem) is entered: no attempt yet
InitGenerate ==
    /\ pc = "gen_loop"
    /\ self \in [max_retries : 0..MaxRetries]
    /\ gen = [attempt |-> 0, raw_response |-> None, mermaid_code |-> None, log |-> <<>>]
    /\ nodes = <<>>
    /\ edges = <<>>
    /\ start_nodes = <<>>
    /\ end_nodes = <<>>
    /\ in_degree = <<>>
    /\ graph = <<>>
    /\ queue = <<>>
    /\ result = <<>>
    /\ mermaid_code = <<>>
    /\ code = <<>>
    /\ error = None
    /\ stack = <<>>
    /\ ret = None
    /\ fwd = None
    /\ calls = <<>>
    /\ heap = <<>>
    /\ generators = <<>>

NextGenerate ==
    \/ Gen_Exhausted
    \/ Gen_ModelRaises
    \/ Gen_NoCode
    \/ Gen_Validate
    \/ Gen_Validated
    \/ Gen_Parsed
    \/ Validate_Call
    \/ Validate_Return
    \/ Validate_Except
    \/ Parse_CheckEmpty
    \/ Parse_Clean
    \/ Parse_CheckFlowchart
    \/ Parse_Nodes
    \/ Parse_Edges
    \/ Parse_Identify

SpecGenerate == InitGenerate /\ [][NextGenerate]_vars

----------------------------------------------------------------------------
(* GRDGenerator.__init__ and add_example: the few-shot examples.  A list   *)
(* is an object with an identity: heap holds the lists, heap[1] being the   *)
(* list the class attribute DEFAULT_EXAMPLES names, and an instance holds   *)
(* in examples the position of its list in heap.  In this part self is the  *)
(* position in generators of the instance the last call ran on.             *)

\* largest number of instances constructed
MaxGenerators == 3

\* largest length a list of examples is grown to
MaxExamples == 4

\* {"problem": ..., "grd": ...}
Example(problem, grd) == [problem |-> problem, grd |-> grd]

\* the two examples of the class attribute, lines 14-36, by a short name each
DEFAULT_EXAMPLES ==
    <<Example(<<"t", "r", "a", "i", "n">>, Header \o Lines(<<Edge("A", "B")>>)),
      Example(<<"s", "o", "l", "v", "e">>, Header \o Lines(<<Edge("A", "B")>>))>>

\* the examples argument of the constructor: left out (None), an empty list,
\* or a list of one example
ExamplesArguments ==
    {[is_none |-> TRUE, list |-> <<>>]}
        \cup {[is_none |-> FALSE, list |-> l] :
                 l \in {<<>>, <<Example(<<"c">>, Header)>>}}

\* the list of the instance at position i of gs, in the heap h
ExamplesOf(h, gs, i) == h[gs[i].examples]

\* line 54, self.examples = examples or self.DEFAULT_EXAMPLES: a list that is
\* given and not empty is the instance's list, otherwise the instance names
\* the list of the class
GRDGenerator_Init ==
    /\ pc \in {"examples_start", "constructed", "example_added"}
    /\ Len(generators) < MaxGenerators
    /\ \E examples \in ExamplesArguments :
          IF examples.is_none \/ examples.list = <<>>
          THEN /\ heap' = heap
               /\ generators' = Append(generators, [examples |-> 1])
          ELSE /\ heap' = Append(heap, examples.list)
               /\ generators' = Append(generators, [examples |-> Len(heap) + 1])
    /\ self' = Len(generators) + 1
    /\ pc' = "constructed"
    /\ UNCHANGED <<grdVars, geoVars, parseVars, stack, ret, fwd, calls, gen>>

\* lines 222-230: self.examples.append({"problem": problem, "grd": grd})
add_example ==
    /\ pc \in {"constructed", "example_added"}
    /\ \E i \in 1..Len(generators) :
          /\ Len(ExamplesOf(heap, generators, i)) < MaxExamples
          /\ heap' = [heap EXCEPT ![generators[i].examples] =
                                      Append(@, Example(<<"n">>, Header))]
          /\ self' = i
    /\ pc' = "example_added"
    /\ UNCHANGED <<grdVars, geoVars, parseVars, stack, ret, fwd, calls, gen, generators>>

InitExamples ==
    /\ pc = "examples_start"
    /\ heap = <<DEFAULT_EXAMPLES>>
    /\ generators = <<>>
    /\ self = 0
    /\ gen = None
    /\ nodes = <<>>
    /\ edges = <<>>
    /\ start_nodes = <<>>
    /\ end_nodes = <<>>
    /\ in_degree = <<>>
    /\ graph = <<>>
    /\ queue = <<>>
    /\ result = <<>>
    /\ mermaid_code = <<>>
    /\ code = <<>>
    /\ error = None
    /\ stack = <<>>
    /\ ret = None
    /\ fwd = None
    /\ calls = <<>>

NextExamples ==
    \/ GRDGenerator_Init
    \/ add_example

SpecExamples == InitExamples /\ [][NextExamples]_vars

----------------------------------------------------------------------------
(* Graph vocabulary of the claims about get_execution_order, defined on    *)
(* the node and edge lists alone.                                          *)

\* node ids unique, every edge endpoint a node id
WellFormed ==
    /\ \A i, j \in 1..Len(nodes) : i # j => nodes[i].id # nodes[j].id
    /\ \A i \in 1..Len(edges) :
          edges[i].from_node \in NodeIds(nodes) /\ edges[i].to_node \in NodeIds(nodes)

Successors(S) == {edges[i].to_node : i \in {j \in 1..Len(edges) : edges[j].from_node \in S}}

RECURSIVE Closure(_)
Closure(S) == LET T == S \cup Successors(S) IN IF T = S THEN S ELSE Closure(T)

\* ids reachable from n along one edge or more
ReachableFrom(n) == Closure(Successors({n}))

OnCycle(n) == n \in ReachableFrom(n)

Acyclic == \A n \in NodeIds(nodes) : ~OnCycle(n)

HasIncoming(n) == \E i \in 1..Len(edges) : edges[i].to_node = n

\* FIFO Kahn as section 4.6 words it, on the edge list: deg is a function on
\* the node ids, q the queue, out the order so far
RECURSIVE KahnScan(_, _, _, _)
KahnScan(deg, q, n, i) ==
    IF i > Len(edges) THEN [deg |-> deg, q |-> q]
    ELSE IF edges[i].from_node = n
         THEN LET t == edges[i].to_node
                  deg1 == [deg EXCEPT ![t] = @ - 1]
              IN  KahnScan(deg1, IF deg1[t] = 0 THEN Append(q, t) ELSE q, n, i + 1)
         ELSE KahnScan(deg, q, n, i + 1)

RECURSIVE KahnLoop(_, _, _)
KahnLoop(deg, q, out) ==
    IF q = <<>> THEN out
    ELSE LET s == KahnScan(deg, Tail(q), Head(q), 1)
         IN  KahnLoop(s.deg, s.q, Append(out, Head(q)))

KahnOrder ==
    LET ids  == [i \in 1..Len(nodes) |-> nodes[i].id]
        deg0 == [n \in NodeIds(nodes) |->
                    Cardinality({i \in 1..Len(edges) : edges[i].to_node = n})]
    IN  KahnLoop(deg0, SelectSeq(ids, LAMBDA n : deg0[n] = 0), <<>>)

----------------------------------------------------------------------------
(* Claims.                                                                 *)

\* C1: on a graph with unique node ids whose edges name only nodes, the
\* returned order has no duplicates, is at most as long as the node list, and
\* is exactly as long iff the graph is acyclic (a self-loop is a cycle).
C1_OrderLength ==
    (pc = "geo_done" /\ WellFormed) =>
        /\ NoDup(result)
        /\ Len(result) <= Len(nodes)
        /\ (Len(result) = Len(nodes) <=> Acyclic)

\* a cyclic graph whose order is partial and not empty
C1_Witness ==
    /\ pc = "geo_done" /\ WellFormed /\ ~Acyclic
    /\ 0 < Len(result) /\ Len(result) < Len(nodes)

\* C2: in the returned order, every edge whose target is in the order has its
\* source in the order at a strictly earlier position.
C2_SourcesFirst ==
    (pc = "geo_done" /\ WellFormed) =>
        \A i \in 1..Len(edges) :
            edges[i].to_node \in Range(result) =>
                /\ edges[i].from_node \in Range(result)
                /\ IndexOf(result, edges[i].from_node) < IndexOf(result, edges[i].to_node)

\* a partial order (a cycle elsewhere) that contains an edge's target
C2_Witness ==
    /\ pc = "geo_done" /\ WellFormed /\ ~Acyclic
    /\ \E i \in 1..Len(edges) : edges[i].to_node \in Range(result)

\* C3: the returned order is the sequence of FIFO Kahn's algorithm (seeded
\* in node-list order, dequeued from the front, newly ready targets appended
\* in edge-list order); the first element of a non-empty order is the first
\* node of the node list without incoming edge.
C3_FifoKahn ==
    (pc = "geo_done" /\ WellFormed) =>
        /\ result = KahnOrder
        /\ result # <<>> =>
              \E i \in 1..Len(nodes) :
                  /\ result[1] = nodes[i].id
                  /\ ~HasIncoming(nodes[i].id)
                  /\ \A j \in 1..(i-1) : HasIncoming(nodes[j].id)

\* two seeds are queued and a node becomes ready after both: the order tells
\* a FIFO queue from a LIFO one
C3_Witness ==
    /\ pc = "geo_done" /\ WellFormed
    /\ Len(result) = 3
    /\ ~HasIncoming(result[1]) /\ ~HasIncoming(result[2]) /\ HasIncoming(result[3])

\* C4: on a graph with a cycle the call does not raise, no node on a cycle is
\* ever put in the order, and when every node has an incoming edge from a
\* node on a cycle the returned order is empty.
C4_CycleOmitted ==
    (WellFormed /\ ~Acyclic) =>
        /\ pc # "geo_raised"
        /\ \A n \in Range(result) : ~OnCycle(n)
        /\ (pc = "geo_done" /\ \A n \in NodeIds(nodes) :
                \E i \in 1..Len(edges) :
                    edges[i].to_node = n /\ OnCycle(edges[i].from_node))
            => result = <<>>

\* the two-node cycle A-->B, B-->A has returned the empty order
C4_Witness ==
    /\ pc = "geo_done" /\ WellFormed
    /\ Len(nodes) = 2 /\ Len(edges) = 2
    /\ edges[1].from_node = nodes[1].id /\ edges[1].to_node = nodes[2].id
    /\ edges[2].from_node = nodes[2].id /\ edges[2].to_node = nodes[1].id
    /\ result = <<>>

----------------------------------------------------------------------------
(* Vocabulary of the claims about parse, read off the cleaned text.        *)

\* the matches of one shape rule as [id, label, node_type]
Declared(c, rule) ==
    LET ms == FindIter(c, rule.re) IN
    [k \in 1..Len(ms) |-> [id        |-> GroupOf(c, ms[k], 1),
                           label     |-> Strip(GroupOf(c, ms[k], 2)),
                           node_type |-> rule.node_type]]

\* the ordered rule scan: rules in table order, matches in text order
RECURSIVE RuleScan(_, _)
RuleScan(c, i) ==
    IF i > Len(NODE_PATTERNS) THEN <<>>
    ELSE Declared(c, NODE_PATTERNS[i]) \o RuleScan(c, i + 1)

\* the edge occurrences of the text, labelled ones first, as [from_node, to_node]
EdgeOccurrences(c) ==
    LET ms == FindIter(c, LabeledPattern) \o FindIter(c, SimplePattern) IN
    [k \in 1..Len(ms) |-> [from_node |-> GroupOf(c, ms[k], 1), to_node |-> GroupOf(c, ms[k], 3)]]

HasEdge(f, t) == \E i \in 1..Len(edges) : edges[i].from_node = f /\ edges[i].to_node = t

\* C5: in the graph parse returns, start_nodes holds exactly the node ids that
\* are the target of no edge and end_nodes exactly those that are the source of
\* no edge; a node without edges is in both, a node whose only edge is a
\* self-loop is in neither.
C5_StartEndNodes ==
    pc = "parse_done" =>
        LET ids == NodeIds(nodes) IN
        /\ Range(start_nodes) = {n \in ids : \A i \in 1..Len(edges) : edges[i].to_node # n}
        /\ Range(end_nodes) = {n \in ids : \A i \in 1..Len(edges) : edges[i].from_node # n}
        /\ \A n \in ids :
              /\ (\A i \in 1..Len(edges) : edges[i].from_node # n /\ edges[i].to_node # n)
                    => n \in Range(start_nodes) /\ n \in Range(end_nodes)
              /\ (HasEdge(n, n) /\ \A i \in 1..Len(edges) :
                        (edges[i].from_node = n \/ edges[i].to_node = n)
                            => (edges[i].from_node = n /\ edges[i].to_node = n))
                    => n \notin Range(start_nodes) /\ n \notin Range(end_nodes)

\* one node without edges beside one whose only edge is a self-loop
C5_Witness ==
    /\ pc = "parse_done"
    /\ \E a, b \in NodeIds(nodes) :
          /\ a # b
          /\ HasEdge(a, a) /\ Len(edges) = 1
          /\ b \in Range(start_nodes) /\ b \in Range(end_nodes)
          /\ a \notin Range(start_nodes) /\ a \notin Range(end_nodes)

\* C6: in the graph parse returns, both ends of every edge are ids of nodes
\* of the graph; an edge occurrence with an end that is no node id is not
\* recorded, and a self-loop on a node is recorded.
C6_EdgeEndsKnown ==
    pc = "parse_done" =>
        LET ids  == NodeIds(nodes)
            occs == EdgeOccurrences(code)
        IN  /\ \A i \in 1..Len(edges) :
                  edges[i].from_node \in ids /\ edges[i].to_node \in ids
            /\ \A k \in 1..Len(occs) :
                  /\ (occs[k].from_node \notin ids \/ occs[k].to_node \notin ids)
                        => ~HasEdge(occs[k].from_node, occs[k].to_node)
                  /\ (occs[k].from_node = occs[k].to_node /\ occs[k].from_node \in ids)
                        => HasEdge(occs[k].from_node, occs[k].to_node)

\* an occurrence towards an unknown id was dropped and a self-loop recorded
C6_Witness ==
    /\ pc = "parse_done"
    /\ LET occs == EdgeOccurrences(code) IN
       /\ \E k \in 1..Len(occs) : occs[k].to_node \notin NodeIds(nodes)
       /\ \E k \in 1..Len(occs) :
             occs[k].from_node = occs[k].to_node /\ HasEdge(occs[k].from_node, occs[k].to_node)

\* C7: in the graph parse returns, node ids are pairwise distinct, and a
\* node whose id a shape rule matches has the shape tag and the label of the
\* first such match of the ordered rule scan, whatever matches the id later.
C7_FirstMatchWins ==
    pc = "parse_done" =>
        LET scan == RuleScan(code, 1) IN
        /\ \A i, j \in 1..Len(nodes) : i # j => nodes[i].id # nodes[j].id
        /\ \A k \in 1..Len(scan) :
              (\A j \in 1..(k-1) : scan[j].id # scan[k].id) =>
                  \E i \in 1..Len(nodes) :
                      /\ nodes[i].id = scan[k].id
                      /\ nodes[i].node_type = scan[k].node_type
                      /\ nodes[i].label = scan[k].label

\* an id matched by two rules with different labels that is an edge end too
C7_Witness ==
    /\ pc = "parse_done"
    /\ LET scan == RuleScan(code, 1) IN
       \E j, k \in 1..Len(scan) :
          /\ j < k
          /\ scan[j].id = scan[k].id
          /\ scan[j].node_type # scan[k].node_type
          /\ scan[j].label # scan[k].label
          /\ \E i \in 1..Len(edges) : edges[i].from_node = scan[j].id

\* C8: an id matched both by the hexagon rule {{text}} and by the diamond rule
\* {text} is parsed as one node with the hexagon tag.
C8_HexagonWins ==
    pc = "parse_done" =>
        LET hex == Declared(code, NODE_PATTERNS[5])
            dia == Declared(code, NODE_PATTERNS[4])
        IN  \A h \in 1..Len(hex) :
                (\E d \in 1..Len(dia) : dia[d].id = hex[h].id) =>
                    /\ Cardinality({i \in 1..Len(nodes) : nodes[i].id = hex[h].id}) = 1
                    /\ \A i \in 1..Len(nodes) :
                          nodes[i].id = hex[h].id => nodes[i].node_type = "hexagon"

\* C9: every id that is an end of an edge occurrence and that no shape rule
\* declares is a Rectangle node labelled with its id, and the edge of the
\* occurrence is recorded.
C9_ImplicitNodes ==
    pc = "parse_done" =>
        LET occs     == EdgeOccurrences(code)
            scan     == RuleScan(code, 1)
            declared == {scan[k].id : k \in 1..Len(scan)}
            implicit(n) == n \notin declared =>
                               \E i \in 1..Len(nodes) :
                                   nodes[i] = GRDNode(n, n, "rectangle")
        IN  \A k \in 1..Len(occs) :
                /\ implicit(occs[k].from_node)
                /\ implicit(occs[k].to_node)
                /\ HasEdge(occs[k].from_node, occs[k].to_node)

\* C10: the edge list parse returns never holds two edges with the same
\* ordered pair (from_node, to_node).
C10_NoDuplicatePairs ==
    pc = "parse_done" =>
        \A i, j \in 1..Len(edges) :
            i # j => ~(edges[i].from_node = edges[j].from_node
                        /\ edges[i].to_node = edges[j].to_node)

----------------------------------------------------------------------------
(* Vocabulary of the claims about the two passes of the edge extractor.    *)

\* the matches of an edge pattern with groups (from, middle, to), as
\* [from_node, to_node, middle, start]
Occurrences(c, re) ==
    LET ms == FindIter(c, re) IN
    [k \in 1..Len(ms) |-> [from_node |-> GroupOf(c, ms[k], 1),
                           to_node   |-> GroupOf(c, ms[k], 3),
                           middle    |-> GroupOf(c, ms[k], 2),
                           start     |-> ms[k].start]]

\* an edge of the labelled pass carries a label, one of the plain pass None
IsLabelled(e) == e.label # None

SamePair(e, o) == e.from_node = o.from_node /\ e.to_node = o.to_node

\* C11: in the edge list parse returns, a pair recorded by the labelled pass
\* has no edge of the plain pass, the occurrence's label is on the edge of its
\* pair, and every edge of the labelled pass precedes every edge of the plain
\* pass.
C11_LabelledWins ==
    pc = "parse_done" =>
        LET labelled == Occurrences(code, LabeledPattern)
            ids      == NodeIds(nodes)
        IN  /\ \A i, j \in 1..Len(edges) :
                  (IsLabelled(edges[i]) /\ SamePair(edges[i], edges[j])) => IsLabelled(edges[j])
            /\ \A k \in 1..Len(labelled) :
                  (labelled[k].from_node \in ids /\ labelled[k].to_node \in ids) =>
                      \E i \in 1..Len(edges) :
                          /\ SamePair(edges[i], labelled[k])
                          /\ edges[i].label = Strip(labelled[k].middle)
            /\ \A i, j \in 1..Len(edges) :
                  (IsLabelled(edges[i]) /\ ~IsLabelled(edges[j])) => i < j

\* the plain occurrence of a pair comes first in the text, the labelled one
\* after it, and the only edge recorded carries the label
C11_Witness ==
    /\ pc = "parse_done"
    /\ LET labelled == Occurrences(code, LabeledPattern)
           plain    == Occurrences(code, SimplePattern)
       IN  \E k \in 1..Len(labelled), m \in 1..Len(plain) :
              /\ SamePair(plain[m], labelled[k])
              /\ plain[m].start < labelled[k].start
              /\ Len(edges) = 1
              /\ SamePair(edges[1], labelled[k])
              /\ edges[1].label = Strip(labelled[k].middle)

\* source[bracket] ARROW |label| target[bracket] for one connector, as section
\* 4.4 words the labelled pass; groups (from, label, to)
LabelledWith(arrow) ==
    WordGroup(1) \o <<OptionalBracket, Spaces>> \o LitSeq(arrow)
        \o <<Spaces, Lit("|"), Spaces>> \o LazyGroup(2) \o <<Spaces, Lit("|"), Spaces>>
        \o WordGroup(3) \o <<OptionalBracket>>

ThinArrow == <<"-", "-", ">">>
ThickArrow == <<"=", "=", ">">>

\* the labelled occurrences with a thin or a thick connector
ArrowLabelled(c) ==
    Occurrences(c, LabelledWith(ThinArrow)) \o Occurrences(c, LabelledWith(ThickArrow))

\* C12: in the graph parse returns, every occurrence X -->|label| Y or
\* X ==>|label| Y between known nodes has an edge (X, Y) with that label, and
\* every labelled edge comes from such an occurrence.
C12_BothConnectors ==
    pc = "parse_done" =>
        LET occs == ArrowLabelled(code)
            ids  == NodeIds(nodes)
        IN  /\ \A k \in 1..Len(occs) :
                  (occs[k].from_node \in ids /\ occs[k].to_node \in ids) =>
                      \E i \in 1..Len(edges) :
                          SamePair(edges[i], occs[k]) /\ edges[i].label = Strip(occs[k].middle)
            /\ \A i \in 1..Len(edges) :
                  IsLabelled(edges[i]) =>
                      \E k \in 1..Len(occs) :
                          SamePair(edges[i], occs[k]) /\ edges[i].label = Strip(occs[k].middle)

\* the edge occurrences whose source (side = 1) or target (side = 2) carries
\* the shape syntax of one rule of the table, as [from_node, to_node]
Shaped(c, rule, side) ==
    LET re == IF side = 1
              THEN rule.re \o <<Spaces>> \o ArrowGroup(3) \o <<Spaces>> \o WordGroup(4)
              ELSE WordGroup(4) \o <<Spaces>> \o ArrowGroup(3) \o <<Spaces>> \o rule.re
        ms == FindIter(c, re)
    IN  [k \in 1..Len(ms) |->
            [from_node |-> GroupOf(c, ms[k], IF side = 1 THEN 1 ELSE 4),
             to_node   |-> GroupOf(c, ms[k], IF side = 1 THEN 4 ELSE 1)]]

\* C13: in the graph parse returns, every edge occurrence with an inline
\* shape on its source or its target, whatever the shape syntax, has an edge
\* between its two identifiers, and no edge end holds anything but an
\* identifier.
C13_InlineShapes ==
    pc = "parse_done" =>
        /\ \A r \in 1..Len(NODE_PATTERNS), side \in {1, 2} :
              LET occs == Shaped(code, NODE_PATTERNS[r], side) IN
              \A k \in 1..Len(occs) : HasEdge(occs[k].from_node, occs[k].to_node)
        /\ \A i \in 1..Len(edges) :
              Range(edges[i].from_node) \cup Range(edges[i].to_node) \subseteq WordChars

----------------------------------------------------------------------------
(* Vocabulary of the claims about validate, the header check and the       *)
(* normalizer, read off the raw text line by line as sections 4.1 and 4.2  *)
(* word them.                                                              *)

\* a letter in lower case
Lower(ch) ==
    IF ch \in Range(UpperCase)
    THEN LowerCase[CHOOSE i \in 1..26 : UpperCase[i] = ch]
    ELSE ch

LowerStr(s) == [i \in 1..Len(s) |-> Lower(s[i])]

HeaderWords == { <<"g", "r", "a", "p", "h">>, <<"f", "l", "o", "w", "c", "h", "a", "r", "t">> }

BeginsWithHeader(line) == \E h \in HeaderWords : StartsWith(LowerStr(line), h)

\* some line of the text begins with a header keyword
HasHeaderLine(c) ==
    LET ls == Split(c, "\n") IN \E i \in 1..Len(ls) : BeginsWithHeader(ls[i])

\* a line up to its first %%
RECURSIVE BeforeComment(_)
BeforeComment(line) ==
    IF line = <<>> \/ StartsWith(line, <<"%", "%">>) THEN <<>>
    ELSE <<Head(line)>> \o BeforeComment(Tail(line))

\* runs of spaces and tabs made one space
RECURSIVE Collapse(_)
Collapse(line) ==
    IF line = <<>> THEN <<>>
    ELSE IF Head(line) \in {" ", "\t"}
         THEN IF Len(line) > 1 /\ line[2] \in {" ", "\t"}
              THEN Collapse(Tail(line))
              ELSE <<" ">> \o Collapse(Tail(line))
         ELSE <<Head(line)>> \o Collapse(Tail(line))

\* a line without its comment, collapsed and trimmed
TidyLine(line) == Strip(Collapse(BeforeComment(line)))

\* some raw line, its comment left out, begins with a header keyword
RawHeaderLine(raw) ==
    LET ls == Split(raw, "\n") IN \E i \in 1..Len(ls) : BeginsWithHeader(TidyLine(ls[i]))

\* the lines inside the fence wrapper of a raw text whose first non-blank
\* line is a fence line: those after it, up to the last non-blank line when
\* that is a bare fence
FencedBody(raw) ==
    LET ls       == Split(raw, "\n")
        nonblank == {i \in 1..Len(ls) : Strip(ls[i]) # <<>>}
        first    == CHOOSE i \in nonblank : \A j \in nonblank : i <= j
        last     == CHOOSE i \in nonblank : \A j \in nonblank : j <= i
    IN  SubSeq(ls, first + 1,
               IF last > first /\ Strip(ls[last]) = Fence THEN last - 1 ELSE Len(ls))

\* the lines tidied, the empty ones dropped, joined again
Tidy(ls) ==
    Join(SelectSeq([i \in 1..Len(ls) |-> TidyLine(ls[i])], LAMBDA l : l # <<>>), "\n")

\* parse has gone past its header check or has raised
Checked == pc \in {"parse_nodes", "parse_edges", "parse_identify", "parse_done",
                   "parse_raised", "validate_done"}

\* C14: validate ends with a pair for every text: (True, None) exactly when
\* its parse did not raise, otherwise (False, message of the ValueError), the
\* message never None; the empty text gives (False, "Mermaid code cannot be
\* empty"); what parse raises is one of the ValueErrors validate catches.
C14_ValidateTotal ==
    /\ pc = "validate_done" =>
          /\ ret[1] \in BOOLEAN
          /\ ret[1] <=> error = None
          /\ ret[1] => (ret[2] = None /\ mermaid_code # <<>> /\ IsFlowchart(CleanCode(mermaid_code)))
          /\ ~ret[1] => (ret[2] # None /\ ret[2] = error)
          /\ mermaid_code = <<>> => ret = <<FALSE, EmptyError>>
    /\ pc = "parse_raised" => error \in {EmptyError, FlowchartError}
    /\ (pc \in {"parse_done", "parse_raised"} /\ stack = <<"validate">>)
          => ENABLED (Validate_Return \/ Validate_Except)

\* validate has returned False with the reason of the header check
C14_Witness ==
    /\ pc = "validate_done"
    /\ mermaid_code # <<>>
    /\ ret = <<FALSE, FlowchartError>>

\* C15: on a text that is empty or holds whitespace only, parse raises the
\* error "Mermaid code cannot be empty", before any header check.
C15_EmptyInput ==
    (Strip(mermaid_code) = <<>> /\ pc \notin {"validate_start", "parse_start"}) =>
        /\ pc \in {"parse_raised", "validate_done"}
        /\ error = EmptyError
        /\ code = <<>>

\* C16: on a text that is not empty, parse raises "Only flowchart diagrams
\* are supported" exactly when no line of the normalized text begins, in any
\* letter case, with graph or flowchart; that is, exactly when no raw line
\* does once its comment is left out, a fence line never counting.
C16_HeaderCheck ==
    (mermaid_code # <<>> /\ Checked) =>
        /\ error \in {None, FlowchartError}
        /\ error = FlowchartError <=> ~HasHeaderLine(code)
        /\ error = FlowchartError <=> ~RawHeaderLine(mermaid_code)
        /\ error = FlowchartError <=> pc \in {"parse_raised", "validate_done"} /\ ret # <<TRUE, None>>

\* a text with a header as the language tag of the dropped fence line and a
\* header inside a comment, and none elsewhere, was rejected
C16_Witness ==
    /\ pc = "parse_raised"
    /\ error = FlowchartError
    /\ LET ls == Split(mermaid_code, "\n") IN
       /\ StartsWith(ls[1], Fence) /\ HasHeaderLine(<<>> \o SubSeq(ls[1], 4, Len(ls[1])))
       /\ \E i \in 1..Len(ls) :
             StartsWith(ls[i], <<"%", "%">>) /\ HasHeaderLine(SubSeq(ls[i], 3, Len(ls[i])))

\* C17: _clean_code applied to its own output returns that output.
C17_Idempotent ==
    pc = "clean_twice" => ret = code

\* C18: on a text whose first non-blank line is a fence line, _clean_code
\* returns the tidied lines inside the wrapper: the opening fence line is
\* dropped whatever blank lines precede it, and so is a bare fence that is the
\* last non-blank line whatever follows it.
C18_FenceDropped ==
    (pc \in {"clean_once", "clean_twice"} /\ StartsWith(Strip(mermaid_code), Fence)) =>
        code = Tidy(FencedBody(mermaid_code))

----------------------------------------------------------------------------
(* Vocabulary of the claims about forward.                                 *)

\* a text the parser rejects: empty, or without header line once comments
\* are left out
ParserRejects(t) == t = <<>> \/ ~RawHeaderLine(t)

\* forward has a GRD text in hand: the one passed in, planned or generated
HasGrdText == fwd.grd # None

\* C19: when the GRD text is one the parser rejects, forward never invokes
\* the step executor and returns a result with valid = False, an error that is
\* not None, parsed_grd = None, no reasoning step and the empty answer,
\* whether validate_grd is set or not.
C19_RejectedGrd ==
    (HasGrdText /\ ParserRejects(fwd.grd)) =>
        /\ calls = <<>>
        /\ pc \notin {"fwd_loop", "fwd_raised", "geo_build", "parse_nodes"}
        /\ pc = "fwd_done" =>
              /\ ret.valid = FALSE
              /\ ret.error # None
              /\ ret.parsed_grd = None
              /\ ret.reasoning_steps = <<>>
              /\ ret.answer = <<>>

\* without validation, a text that is not empty and has no header has been
\* turned down by the parse inside forward
C19_Witness ==
    /\ pc = "fwd_done"
    /\ HasGrdText /\ fwd.grd # <<>> /\ ParserRejects(fwd.grd)
    /\ ~self.validate_grd
    /\ ret.valid = FALSE
    /\ ret.error = FailedToParsePrefix \o FlowchartError

\* C20: a result of forward with valid = True has a parsed_grd that is not
\* None and at least one reasoning step.
C20_ValidHasSteps ==
    (pc = "fwd_done" /\ ret.valid) =>
        /\ ret.parsed_grd # None
        /\ Len(ret.reasoning_steps) >= 1

\* forward has returned after a parse that succeeded
Parsed == pc = "fwd_done" /\ ret.parsed_grd # None

\* the smaller of two numbers
Min(a, b) == IF a < b THEN a ELSE b

\* the entries of an execution trace that the loop over the order appended
ExecutionEntries(trace) == SelectSeq(trace, LAMBDA t : t.phase = "execution")

\* C21: forward invokes the step executor at most max_execution_steps times,
\* and once it has returned after a successful parse, the ids it invoked it for
\* are the first min(max_execution_steps, len(order)) ids of the graph's
\* execution order, in that order, none twice.
C21_BoundedSteps ==
    /\ calls # <<>> => Len(calls) <= self.max_execution_steps
    /\ NoDup(calls)
    /\ Parsed =>
          /\ WellFormed
          /\ calls = SubSeq(KahnOrder, 1, Min(self.max_execution_steps, Len(KahnOrder)))

\* C25: after a successful parse forward looks at the emptiness of the order
\* alone: an empty order gives valid = False with the error "GRD has no
\* execution order" and no step; an order that is not empty, be it shorter than
\* the node list, gives valid = True with error None, and no node left out of
\* the order is ever executed.
C25_EmptinessDecides ==
    Parsed =>
        /\ ret.parsed_grd = GRDStructure(nodes, edges, start_nodes, end_nodes)
        /\ KahnOrder = <<>> =>
              /\ ret.valid = FALSE
              /\ ret.error = NoExecutionOrder
              /\ calls = <<>>
              /\ ret.reasoning_steps = <<>>
        /\ KahnOrder # <<>> =>
              /\ ret.valid = TRUE
              /\ ret.error = None
              /\ Range(calls) \subseteq Range(KahnOrder)
              /\ \A n \in NodeIds(nodes) : OnCycle(n) => n \notin Range(calls)
              /\ calls = Bounded(KahnOrder, self.max_execution_steps)

\* a graph with a cycle behind its first node: the order is shorter than the
\* node list, it was executed in full and the result is valid
C25_Witness ==
    /\ Parsed
    /\ ~Acyclic
    /\ 0 < Len(KahnOrder) /\ Len(KahnOrder) < Len(nodes)
    /\ calls = KahnOrder
    /\ ret.valid = TRUE /\ ret.error = None

C28_MissingIffBehindCycle ==
    (pc = "geo_done" /\ WellFormed) =>
        /\ \A n \in NodeIds(nodes) :
              n \notin Range(result) <=>
                  \/ OnCycle(n)
                  \/ \E m \in NodeIds(nodes) : OnCycle(m) /\ n \in ReachableFrom(m)
        /\ Acyclic => Range(result) = NodeIds(nodes)

\* a node off every cycle is missing because a cycle leads to it, while
\* another node is in the order
C28_Witness ==
    /\ pc = "geo_done" /\ WellFormed
    /\ result # <<>>
    /\ \E n \in NodeIds(nodes) : ~OnCycle(n) /\ n \notin Range(result)

\* the score as a fraction equals a / b
ScoreIs(score, a, b) == score # None /\ score[1] * b = a * score[2]

\* the graph is the cycle of two nodes, each with an edge to the other
TwoNodeCycle ==
    /\ Len(nodes) = 2
    /\ {<<edges[i].from_node, edges[i].to_node>> : i \in 1..Len(edges)}
          = {<<nodes[1].id, nodes[2].id>>, <<nodes[2].id, nodes[1].id>>}

\* C23: execution_traceability(graph) is the length of the execution order
\* over the number of nodes, and 0.0 on a graph without nodes; it is 1.0
\* exactly on the graphs without cycle that have a node, and 0.0 on the cycle
\* of two nodes.
C23_Traceability ==
    (pc = "traceability_done" /\ WellFormed) =>
        /\ Len(nodes) = 0 => ret = ZeroScore
        /\ Len(nodes) > 0 => ScoreIs(ret, Len(KahnOrder), Len(nodes))
        /\ ScoreIs(ret, 1, 1) <=> (Acyclic /\ Len(nodes) >= 1)
        /\ TwoNodeCycle => ScoreIs(ret, 0, 1)

\* the score of a graph with a cycle behind a first node: between 0 and 1
C23_Witness ==
    /\ pc = "traceability_done" /\ WellFormed
    /\ ~Acyclic
    /\ ret # None /\ 0 < ret[1] /\ ret[1] < ret[2]

\* C30: on every well-formed graph, with cycles, self-loops and repeated
\* edges, get_execution_order comes to its return; on the way every id enters
\* the queue at most once and leaves it at most once, no in-degree counter
\* falls below zero, and nodes, edges, start_nodes and end_nodes stay as they
\* were.
C30_Terminates ==
    /\ [](WellFormed =>
            /\ NoDup(result \o queue)
            /\ \A i \in 1..Len(in_degree) : in_degree[i].v >= 0)
    /\ [][UNCHANGED grdVars]_vars
    /\ (WellFormed => <>(pc = "geo_done"))

\* the call has returned on a graph with a self-loop and a repeated edge
C30_Witness ==
    /\ pc = "geo_done" /\ WellFormed
    /\ \E i \in 1..Len(edges) : edges[i].from_node = edges[i].to_node
    /\ \E i, j \in 1..Len(edges) : i # j /\ edges[i] = edges[j]

\* the normalized text is one line and that line begins with a header keyword
HeaderOnly == Len(Split(code, "\n")) = 1 /\ BeginsWithHeader(code)

\* C29: validate returns True exactly when the text is not empty and some
\* line of its normalized form begins with graph or flowchart, whatever the
\* extraction of nodes and edges finds; for a text that is a header line and
\* nothing else it returns True and the parsed graph has no node, no edge, no
\* start node, no end node and the empty execution order.
C29_ValidateIffHeader ==
    pc = "validate_done" =>
        /\ ret[1] <=> (mermaid_code # <<>> /\ HasHeaderLine(code))
        /\ (mermaid_code # <<>> /\ HeaderOnly) =>
              /\ ret = <<TRUE, None>>
              /\ nodes = <<>> /\ edges = <<>>
              /\ start_nodes = <<>> /\ end_nodes = <<>>
              /\ KahnOrder = <<>>

\* a header line alone, behind a blank line, has been validated
C29_Witness ==
    /\ pc = "validate_done"
    /\ HeaderOnly
    /\ mermaid_code # code
    /\ ret[1] = TRUE /\ nodes = <<>>

\* C22: generate never raises, whatever the model call does (raises, answers
\* without Mermaid code, answers with a diagram that does not validate): it
\* returns a dict with the keys grd, raw_response, parsed_structure, valid and
\* error, in which valid = True comes with a grd, a parsed_structure and
\* error None, and valid = False comes with an error that is not None.
C22_GenerateTotal ==
    /\ pc # "gen_raised"
    /\ (pc \in {"parse_done", "parse_raised", "validate_done"} /\ stack = <<"generate">>)
          => ENABLED (Gen_Validated \/ Gen_Parsed)
    /\ pc = "gen_done" =>
          /\ DOMAIN ret = {"grd", "raw_response", "parsed_structure", "valid", "error"}
          /\ ret.valid \in BOOLEAN
          /\ ret.valid =>
                /\ ret.grd # None /\ ret.grd # <<>>
                /\ ret.parsed_structure # None
                /\ ret.error = None
          /\ ~ret.valid => ret.error # None

\* every attempt raised and generate has returned its failure dict
C22_Witness ==
    /\ pc = "gen_done"
    /\ self.max_retries = MaxRetries
    /\ Len(gen.log) = MaxRetries
    /\ \A i \in 1..Len(gen.log) : gen.log[i].kind = "raised"
    /\ ~ret.valid /\ ret.grd = None

\* the attempt logged at position i gave a code that validates
GoodAttempt(i) == gen.log[i].kind = "code" /\ ~ParserRejects(gen.log[i].mermaid_code)

\* C27: generate calls the model at most max_retries times; it returns at the
\* first attempt whose answer gives a code that validates, without a further
\* call; an attempt that raises, gives no code or gives a diagram that does not
\* validate is followed by another while attempts remain; a failure is
\* returned on the last attempt only, with grd = None after an exception or a
\* missing code and with the rejected code and valid = False otherwise.
C27_BoundedRetries ==
    /\ Len(gen.log) <= self.max_retries
    /\ \A i \in 1..(Len(gen.log) - 1) : ~GoodAttempt(i)
    /\ pc = "gen_done" =>
          LET n == Len(gen.log) IN
          IF n > 0 /\ GoodAttempt(n)
          THEN /\ ret.valid = TRUE
               /\ ret.grd = gen.log[n].mermaid_code
               /\ ret.raw_response = gen.log[n].raw_response
          ELSE /\ ret.valid = FALSE
               /\ n = self.max_retries
               /\ n > 0 =>
                     IF gen.log[n].kind = "code"
                     THEN ret.grd = gen.log[n].mermaid_code
                     ELSE ret.grd = None

\* a first attempt that gave a rejected code was followed by a second one that
\* gave a code that validates, and that one was returned
C27_Witness ==
    /\ pc = "gen_done"
    /\ Len(gen.log) = 2
    /\ gen.log[1].kind = "code" /\ ~GoodAttempt(1)
    /\ GoodAttempt(2)
    /\ ret.valid = TRUE

\* C24: add_example on one instance appends exactly one example to the
\* examples of that instance and leaves as they were the examples of every
\* other instance and the class attribute DEFAULT_EXAMPLES; an instance
\* constructed afterwards without examples has exactly the original defaults.
C24_ExamplesPrivate ==
    [][/\ pc' = "example_added" =>
            /\ ExamplesOf(heap', generators', self')
                  = Append(ExamplesOf(heap, generators, self'),
                           ExamplesOf(heap', generators', self')[
                               Len(ExamplesOf(heap', generators', self'))])
            /\ \A j \in 1..Len(generators) :
                  j # self' => ExamplesOf(heap', generators', j) = ExamplesOf(heap, generators, j)
            /\ heap'[1] = DEFAULT_EXAMPLES
       /\ (pc' = "constructed" /\ heap' = heap) =>
            ExamplesOf(heap', generators', self') = DEFAULT_EXAMPLES
      ]_vars

====
